---- MODULE Spec2Model ----
(***************************************************************************)
(* Model of the Vik navigation controller (src/lib/vik.js, the last        *)
(* revision of the file, lines 567-1458): load(), _loadExec(), the         *)
(* response callbacks, _onpopstate(), init() and the quit-page             *)
(* confirmation guard, together with the parts of the browser they act on  *)
(* (the page tree, the session history, pending requests and timers).      *)
(***************************************************************************)
EXTENDS Integers, Sequences, FiniteSets, TLC

(* ------------------------------------------------------------------ *)
(* Bounds of the model                                                 *)
(* ------------------------------------------------------------------ *)
\* number of requests (forward navigations and replays) issued in a run
MaxReq == 2
\* number of init() calls made by the page's own script in a run
MaxInit == 1

(* ------------------------------------------------------------------ *)
(* Values                                                              *)
(* ------------------------------------------------------------------ *)
\* JavaScript null, and "the property / attribute is not there"
NULL == "null"
ABSENT == "absent"
\* the URL the page was natively loaded from
StartUrl == "/"
Urls == {"/a", "/b"}

(* ------------------------------------------------------------------ *)
(* The page tree.  A node is [org, url, name, kids]: org is the request *)
(* whose response document the node was created in (0: the native      *)
(* page), url the URL of that document, name its tag / id, kids its    *)
(* children in order.  <<org, name>> identifies a node.                *)
(* ------------------------------------------------------------------ *)
Leaf(r, u, n) == [org |-> r, url |-> u, name |-> n, kids |-> <<>>]

Elem(r, u, n, ks) == [org |-> r, url |-> u, name |-> n, kids |-> ks]

\* the document served for URL u, as parsed for request r:
\* <body><form id=f1><form id=f2><div id=t><div id=x>A B</div></div></body>
Doc(r, u) ==
  Elem(r, u, "body",
       << Leaf(r, u, "f1"), Leaf(r, u, "f2"),
          Elem(r, u, "t", << Elem(r, u, "x", << Leaf(r, u, "A"), Leaf(r, u, "B") >>) >>) >>)

NodeId(n) == << n.org, n.name >>

\* the tag / id a selector matches ("#nope" matches nothing)
SelName(sel) ==
  CASE sel = "body" -> "body"
    [] sel = "#t" -> "t"
    [] sel = "#x" -> "x"
    [] OTHER -> "-"

RECURSIVE NodeSeq(_)
\* the nodes of a tree in document order (the tree's root first)
NodeSeq(n) ==
  LET RECURSIVE Cat(_, _)
      Cat(ks, i) == IF i > Len(ks) THEN <<>> ELSE NodeSeq(ks[i]) \o Cat(ks, i + 1)
  IN  <<n>> \o Cat(n.kids, 1)

\* querySelectorAll(sel) on a tree
querySelectorAll(tree, sel) ==
  SelectSeq(NodeSeq(tree), LAMBDA n : n.name = SelName(sel))

\* does querySelector(sel) return a node
Resolves(tree, sel) == querySelectorAll(tree, sel) # <<>>

\* querySelector(sel), when it returns a node: the first match
querySelector(tree, sel) == Head(querySelectorAll(tree, sel))

\* is the node identified by id attached to the tree
Attached(tree, id) ==
  LET s == NodeSeq(tree) IN \E i \in 1..Len(s) : NodeId(s[i]) = id

\* the node identified by id (which is attached)
NodeAt(tree, id) ==
  LET s == SelectSeq(NodeSeq(tree), LAMBDA n : NodeId(n) = id) IN Head(s)

RECURSIVE SubstNode(_, _, _)
\* the tree with the node identified by id substituted by node new
SubstNode(tree, id, new) ==
  IF NodeId(tree) = id THEN new
  ELSE [tree EXCEPT !.kids = [i \in 1..Len(tree.kids) |-> SubstNode(tree.kids[i], id, new)]]

\* targetNode.replaceWith(srcNode): nothing happens on a node that has no
\* parent in the page any more
replaceWith(tree, id, src) ==
  IF Attached(tree, id) THEN SubstNode(tree, id, src) ELSE tree

\* targetNode.innerHTML = ""; then each node of ks appended in order
setChildren(tree, id, ks) ==
  IF Attached(tree, id)
  THEN SubstNode(tree, id, [NodeAt(tree, id) EXCEPT !.kids = ks])
  ELSE tree

\* the forms of a tree
FormNames == {"f1", "f2"}
FormsIn(tree) ==
  LET s == NodeSeq(tree)
  IN  {NodeId(s[i]) : i \in {j \in 1..Len(s) : s[j].name \in FormNames}}

(* ------------------------------------------------------------------ *)
(* Callback values: undefined, null, one handler name, or a list       *)
(* ------------------------------------------------------------------ *)
Undef == [t |-> "undef", v |-> <<>>]
Null == [t |-> "null", v |-> <<>>]
One(h) == [t |-> "one", v |-> <<h>>]
List(hs) == [t |-> "list", v |-> hs]

\* the elements createMergedArray adds to its result for one argument; a
\* null argument is pushed as an element (it is not undefined)
MergedPart(e) ==
  CASE e.t = "undef" -> <<>>
    [] e.t = "null" -> <<NULL>>
    [] OTHER -> e.v

createMergedArray(element1, element2) == List(MergedPart(element1) \o MergedPart(element2))

\* the handlers execCallback really calls, in order: a null element of a list
\* is skipped, a list is run from its first element to its last
execCallback(handler) ==
  IF handler.t \in {"undef", "null"} THEN <<>>
  ELSE SelectSeq(handler.v, LAMBDA h : h # NULL)

(* ------------------------------------------------------------------ *)
(* Global configuration (the "PARAMETERS" of the vik object)           *)
(* ------------------------------------------------------------------ *)
\* the values set by the constructor
DefaultConfig ==
  [ghost |-> "false", target |-> "body", source |-> "body", strategy |-> "replace",
   title |-> "title", preCallback |-> Null, postCallback |-> Null,
   linksSelector |-> "a", formsSelector |-> "form",
   manageQuitPageConfirmation |-> "true", quitPageConfirmationText |-> "Are you sure",
   urlPrefix |-> NULL]

\* the configuration objects the page's script passes to init(); a field
\* that is ABSENT is not a property of the object
NoParams ==
  [ghost |-> ABSENT, target |-> ABSENT, source |-> ABSENT, strategy |-> ABSENT,
   title |-> ABSENT, preCallback |-> Undef, postCallback |-> Undef,
   linksSelector |-> ABSENT, formsSelector |-> ABSENT,
   manageQuitPageConfirmation |-> ABSENT, quitPageConfirmationText |-> ABSENT,
   urlPrefix |-> ABSENT]

UserConfigs ==
  { NoParams,
    [NoParams EXCEPT !.ghost = "true", !.preCallback = One("globalPre")],
    [NoParams EXCEPT !.target = "#t", !.source = "#x", !.strategy = "fill", !.title = NULL],
    [NoParams EXCEPT !.target = "#t", !.source = NULL, !.strategy = "copy", !.title = NULL] }

\* JavaScript truthiness of a string-or-null value
Truthy(v) == v \notin {NULL, ABSENT, "", "false"}

\* _initParams(params) when the configuration is prev: the two selectors
\* and the confirmation text keep their value when params does not give
\* them, every other field is set anew from params
InitParamsFrom(prev, params) ==
  [ghost |-> IF params.ghost = "true" THEN "true" ELSE "false",
   preCallback |-> IF params.preCallback.t # "undef" THEN params.preCallback ELSE Null,
   postCallback |-> IF params.postCallback.t # "undef" THEN params.postCallback ELSE Null,
   target |-> IF params.target # ABSENT THEN params.target ELSE "body",
   source |-> IF params.source # ABSENT THEN params.source ELSE "body",
   strategy |-> IF params.strategy \in {"fill", "copy"} THEN params.strategy ELSE "replace",
   title |-> IF params.title # ABSENT THEN params.title ELSE "title",
   linksSelector |->
     IF Truthy(params.linksSelector) THEN params.linksSelector ELSE prev.linksSelector,
   formsSelector |->
     IF Truthy(params.formsSelector) THEN params.formsSelector ELSE prev.formsSelector,
   manageQuitPageConfirmation |->
     IF params.manageQuitPageConfirmation # ABSENT
     THEN params.manageQuitPageConfirmation ELSE "true",
   quitPageConfirmationText |->
     IF params.quitPageConfirmationText # ABSENT
     THEN params.quitPageConfirmationText ELSE prev.quitPageConfirmationText,
   urlPrefix |-> IF params.urlPrefix # ABSENT THEN params.urlPrefix ELSE NULL]

\* _getParams(): the parameter object rebuilt from the current
\* configuration; it has neither manageQuitPageConfirmation nor
\* quitPageConfirmationText
GetParams(c) ==
  [ghost |-> c.ghost, target |-> c.target, source |-> c.source, strategy |-> c.strategy,
   title |-> c.title, preCallback |-> c.preCallback, postCallback |-> c.postCallback,
   linksSelector |-> c.linksSelector, formsSelector |-> c.formsSelector,
   manageQuitPageConfirmation |-> ABSENT, quitPageConfirmationText |-> ABSENT,
   urlPrefix |-> c.urlPrefix]

\* overloadObject(source, overload) on one property
Overload(base, over) == IF over # ABSENT THEN over ELSE base


(* ------------------------------------------------------------------ *)
(* Inputs of load(): a URL string, a link or a form with its attributes *)
(* (ABSENT: the element does not carry the attribute), and the ghost    *)
(* property of the params object given at the call site.               *)
(* ------------------------------------------------------------------ *)
BaseInput ==
  [kind |-> "link", url |-> "/a", form |-> "-", method |-> ABSENT,
   aGhost |-> ABSENT, aStrategy |-> ABSENT, aTarget |-> ABSENT, aSource |-> ABSENT,
   aPre |-> ABSENT, aValidation |-> ABSENT, pGhost |-> ABSENT,
   pStrategy |-> ABSENT, pTarget |-> ABSENT, pPre |-> ABSENT, aMethod |-> ABSENT,
   aPost |-> ABSENT, aPrefix |-> ABSENT, pPrefix |-> ABSENT]

isForm(in) == in.kind = "form"

\* the value "false" of the attribute left unread
ElementGhostTrueOnly(in) == IF in.aGhost = "true" THEN "true" ELSE in.pGhost

\* load(), lines 757-763: params.ghost after the data-vik-ghost attribute of
\* the element was read; only "true" and "false" are taken
ElementGhost(in) ==
  IF in.aGhost = "true" THEN "true"
  ELSE IF in.aGhost = "false" THEN "false"
  ELSE in.pGhost

\* load(), lines 764-768: params.strategy after the data-vik-strategy
\* attribute was read; the attribute is taken only when it is one of the
\* three strategies, the value of the call is kept as it is otherwise
ElementStrategy(in) ==
  IF in.aStrategy \in {"replace", "fill", "copy"} THEN in.aStrategy ELSE in.pStrategy

\* load(), lines 782-783: params.preCallback after the data-vik-pre-callback
\* attribute was read: the pre-callback of the call, then the element's
ElementPreCallback(in) ==
  LET site == IF in.pPre # ABSENT THEN One(in.pPre) ELSE Undef
  IN  IF in.aPre # ABSENT THEN createMergedArray(site, One(in.aPre)) ELSE site

\* load(), lines 784-785: params.postCallback after the
\* data-vik-post-callback attribute of the element was read
ElementPostCallback(in) ==
  IF in.kind # "url" /\ in.aPost # ABSENT
  THEN createMergedArray(Undef, One(in.aPost)) ELSE Undef

\* load(), lines 724-817: the params object after the input was processed
\* (the call-site object, overwritten by the element's attributes)
LoadParams(in) ==
  LET g == IF in.kind = "url"
           THEN (IF in.pGhost = ABSENT THEN "true" ELSE in.pGhost)
           ELSE ElementGhost(in)
  IN  [ghost |-> IF isForm(in) /\ in.method = "post" THEN "true" ELSE g,
       strategy |-> ElementStrategy(in),
       target |-> IF in.aTarget # ABSENT THEN in.aTarget ELSE in.pTarget,
       source |-> in.aSource,
       preCallback |-> ElementPreCallback(in),
       postData |-> IF isForm(in) /\ in.method = "post" THEN "form" ELSE ABSENT,
       method |-> IF in.kind # "url" /\ in.aMethod = "post" THEN "post" ELSE ABSENT,
       urlPrefix |-> IF in.aPrefix # ABSENT THEN in.aPrefix ELSE in.pPrefix]

\* _loadExec(), lines 1051-1053: the global parameters overloaded with the
\* parameters of the call
EffectiveParams(c, p) ==
  [ghost |-> Overload(c.ghost, p.ghost),
   strategy |-> Overload(c.strategy, p.strategy),
   target |-> Overload(c.target, p.target),
   source |-> Overload(c.source, p.source),
   title |-> c.title,
   urlPrefix |-> Overload(c.urlPrefix, p.urlPrefix)]

\* _loadExec(), lines 1078-1081: realUrl, the URL that is fetched, as the
\* sequence of the strings it is made of
RealUrl(params, url) ==
  IF Truthy(params.urlPrefix) THEN << params.urlPrefix, url >> ELSE << url >>

\* _loadExec(), line 1083: is the response taken as raw text
AsRaw(params) ==
  ~(Truthy(params.source) \/ (Truthy(params.title) /\ params.ghost # "true"))

\* _foundModifiedForm(currentForm): is a form of the page other than
\* currentForm marked as changed
foundModifiedForm(tree, marks, currentForm) ==
  \E f \in FormsIn(tree) : f \in marks /\ f # currentForm

\* load(), lines 846-856: the form being sent is the only one that may be
\* modified, so the confirmation does not apply to it
SelfSubmission(isArmed, in, tree, marks, fid) ==
  isArmed /\ isForm(in) /\ ~foundModifiedForm(tree, marks, fid)

\* setQuitPageConfirmation(false) of line 853 left out
ArmedAfterSelfKept(p) == TRUE

\* load(), lines 852-855: the armed flag after a self submission
ArmedAfterSelf(p) == IF ~Truthy(p.ghost) THEN FALSE ELSE TRUE

\* forceThisOneWithoutConfirm never set
ForceWithoutConfirmNever(self, p) == FALSE

\* load(), line 855: forceThisOneWithoutConfirm
ForceWithoutConfirm(self, p) == self /\ Truthy(p.ghost)

\* load(), line 857: is confirm() called
AsksConfirmation(isArmed, force) == isArmed /\ ~force

(* ------------------------------------------------------------------ *)
(* State                                                               *)
(* ------------------------------------------------------------------ *)
VARIABLES
  cfg,          \* the global configuration
  lastUrl,      \* vik._lastUrl
  previousUrl,  \* vik._previousUrl
  armed,        \* vik._quitPageConfirm
  ctrl,         \* vik._ctrlPressed
  marks,        \* the forms carrying data-_vik-changed="true"
  page,         \* the tree of the page
  docTitle,     \* document.title
  hist,         \* the entries of the session history
  hidx,         \* the position of the current entry in hist
  inflight,     \* the requests sent and not answered yet
  nreq,         \* number of requests sent so far
  ninit,        \* number of init() calls made by the page so far
  timers,       \* number of pending "document ready" callbacks of init()
  last,         \* what the last call of load() did
  log,          \* log[i]: request i and what became of it
  scan,         \* the forms given an onsubmit trigger (bound), those whose
                \* fields were given an onchange handler (tracked) and the
                \* links given an onclick trigger (links) by the scans, and
                \* how many times each element was given its trigger (sets)
  loading,      \* window.location.href was assigned: the browser is about to
                \* load the page anew
  jsIncludes,   \* vik._jsIncludes: the src of the external scripts loaded
  head          \* the script elements appended to <head> by _loadScriptNodes

vars == << cfg, lastUrl, previousUrl, armed, ctrl, marks, page, docTitle, hist, hidx,
           inflight, nreq, ninit, timers, last, log, scan, loading, jsIncludes, head >>

\* no form was scanned yet
NoScan == [bound |-> {}, tracked |-> {}, links |-> {}, sets |-> [id \in {} |-> 0]]

\* a history entry without state, and the state record pushed by _loadExec
NoState == [has |-> FALSE, url |-> "-", target |-> ABSENT, source |-> ABSENT, strategy |-> ABSENT]

StateRecord(url, p) ==
  [has |-> TRUE, url |-> url, target |-> p.target, source |-> p.source, strategy |-> p.strategy]

NoInput == [BaseInput EXCEPT !.kind = "-", !.url = "-"]

\* the record kept of the last handler: for load(), its input (fid: the form
\* node), the user's answer to confirm(), the hook that cancelled the event,
\* where load() stopped, what it returned, whether it called confirm(), the
\* hooks it ran, the request it sent and the guard as it found it;
\* for a response, its request and (stage) the case of title of its document;
\* for init(), its params; for the document-ready handler, the hooks it
\* delivered and the lastUrl and previousUrl it gave them
Quiet ==
  [op |-> "-", in |-> NoInput, fid |-> <<0, "-">>, answer |-> TRUE, canceller |-> "-",
   stage |-> "-", ret |-> "-", prompted |-> FALSE, hooks |-> <<>>, req |-> 0,
   armed0 |-> FALSE, marks0 |-> {}, params |-> NoParams, lu |-> NULL, pu |-> NULL]

\* the number of responses processed so far
Processed == Cardinality({i \in 1..Len(log) : log[i].at > 0})

\* the entry of the log for a request just sent: sentAt is the number of
\* responses processed before it was sent.  When its response is processed,
\* at is the rank of that response among all the responses, live tells
\* whether the target node was still in the page, lu and pu are lastUrl and
\* previousUrl as the callback found them
Sent(r) ==
  [req |-> r, sentAt |-> Processed, outcome |-> "flight", at |-> 0, live |-> FALSE,
   pushed |-> FALSE, lu |-> NULL, pu |-> NULL]

Init ==
  /\ cfg = DefaultConfig
  /\ lastUrl = NULL
  /\ previousUrl = NULL
  /\ armed = FALSE
  /\ ctrl = FALSE
  /\ marks = {}
  /\ page = Doc(0, StartUrl)
  /\ docTitle = StartUrl
  /\ hist = << [url |-> StartUrl, state |-> NoState] >>
  /\ hidx = 1
  /\ inflight = {}
  /\ nreq = 0
  /\ ninit = 0
  /\ timers = 0
  /\ last = Quiet
  /\ log = <<>>
  /\ scan = NoScan
  /\ loading = FALSE
  /\ jsIncludes = {}
  /\ head = <<>>

(* ------------------------------------------------------------------ *)
(* load(input, params)                                                 *)
(* ------------------------------------------------------------------ *)
\* load(), lines 738-744 and 819-828: the URL of the navigation (a GET form
\* appends its query string)
LoadUrl(in) ==
  IF isForm(in) /\ in.method # "post" THEN in.url \o "?q" ELSE in.url

\* the global pre-callbacks run before those of the call and of the element
PreHooksGlobalFirst(c, p) ==
  execCallback(createMergedArray(c.preCallback, p.preCallback)) \o <<"vik:preLoad">>

\* load(), lines 877-883: the pre-callbacks called, in order, followed by the
\* dispatch of the vik:preLoad event
PreHooks(c, p) ==
  execCallback(createMergedArray(p.preCallback, c.preCallback)) \o <<"vik:preLoad">>

\* the answer to confirm() left unread
DeclinedIgnored(prompt, answer) == FALSE

\* load(), lines 859-862: confirm() was called and the user declined
Declined(prompt, answer) == prompt /\ ~answer

\* the result of dispatchEvent left unread: load() always goes on
EventCancelledIgnored(canceller) == FALSE

\* load(), lines 883-886: dispatchEvent returns false when a pre-callback or
\* a listener called preventDefault() on the event
EventCancelled(canceller) == canceller # "-"

\* fetchHttp(), lines 1384-1385: the x-vik-strategy header of a request made
\* with strategy, ABSENT when the header is not set
StrategyHeader(strategy) == IF Truthy(strategy) THEN strategy ELSE ABSENT

\* _loadExec(), lines 1067-1088: the request sent, or none when the target
\* selector is empty or matches nothing
LoadRequest(c, tree, id, in) ==
  LET p == LoadParams(in)
      params == EffectiveParams(c, p)
      url == LoadUrl(in)
  IN  IF ~Truthy(params.target) \/ ~Resolves(tree, params.target) THEN <<>>
      ELSE << [id |-> id, kind |-> "load", in |-> in, url |-> url,
               real |-> RealUrl(params, url),
               target |-> params.target,
               tid |-> NodeId(querySelector(tree, params.target)),
               ghost |-> params.ghost, source |-> params.source,
               strategy |-> params.strategy, title |-> params.title,
               raw |-> AsRaw(params), post |-> p.postData # ABSENT,
               st |-> StateRecord(url, p)] >>

\* the result of the validation callback left unread
ValidationRefusedIgnored(in) == FALSE

\* load(), lines 794-800: the form names a validation callback and the
\* callback returns a falsy value
ValidationRefused(in) == isForm(in) /\ in.aValidation = "reject"

\* _loadExec(), line 1085: with params.method "post" the test reads the
\* identifier postData, which is declared nowhere: a ReferenceError ends
\* _loadExec() and load() before the request is made
PostDataThrows(p) == p.method = "post"

\* what one call of load() does: where it stops, what it returns, whether it
\* prompted, the hooks it ran, the guard it leaves and the request it sent.
\* fid is the form node when the input is a form, answer the user's answer to
\* confirm(), canceller the hook that calls preventDefault() ("-": none)
LoadResult(in, fid, answer, canceller) ==
  LET p == LoadParams(in)
      self == SelfSubmission(armed, in, page, marks, fid)
      marks1 == IF self THEN marks \ {fid} ELSE marks
      armed1 == IF self THEN ArmedAfterSelf(p) ELSE armed
      prompt == AsksConfirmation(armed1, ForceWithoutConfirm(self, p))
      armed2 == IF prompt THEN FALSE ELSE armed1
      hooks == PreHooks(cfg, p)
      req == LoadRequest(cfg, page, nreq + 1, in)
      stop(stage, ret) ==
        [stage |-> stage, ret |-> ret, prompted |-> FALSE, hooks |-> <<>>,
         armed |-> armed, marks |-> marks, req |-> <<>>]
  IN  IF in.kind = "none" THEN stop("empty", "false")
      ELSE IF in.kind = "link" /\ ctrl THEN stop("ctrl", "true")
      ELSE IF in.kind # "url" /\ in.url = ABSENT THEN stop("nourl", "false")
      ELSE IF ValidationRefused(in) THEN stop("invalid", "false")
      ELSE IF Declined(prompt, answer)
        THEN [stage |-> "declined", ret |-> "false", prompted |-> TRUE, hooks |-> <<>>,
              armed |-> armed1, marks |-> marks1, req |-> <<>>]
      ELSE IF EventCancelled(canceller)
        THEN [stage |-> "cancelled", ret |-> "false", prompted |-> prompt, hooks |-> hooks,
              armed |-> armed2, marks |-> marks1, req |-> <<>>]
      ELSE IF req # <<>> /\ PostDataThrows(p)
        THEN [stage |-> "threw", ret |-> "threw", prompted |-> prompt, hooks |-> hooks,
              armed |-> armed2, marks |-> marks1, req |-> <<>>]
      ELSE [stage |-> IF req = <<>> THEN "notarget" ELSE "requested", ret |-> "false",
            prompted |-> prompt, hooks |-> hooks,
            armed |-> armed2, marks |-> marks1, req |-> req]

\* the answers the user can give to confirm() when load() calls it
Answers(in, fid) ==
  IF LoadResult(in, fid, TRUE, "-").prompted THEN BOOLEAN ELSE {TRUE}

\* the hooks that can call preventDefault(): those load() runs
Cancellers(in, fid) ==
  LET o == LoadResult(in, fid, TRUE, "-")
  IN  {"-"} \cup {o.hooks[i] : i \in 1..Len(o.hooks)}

Load(in) ==
  /\ \E fid \in (IF isForm(in) THEN {f \in FormsIn(page) : f[2] = in.form} ELSE {<<0, "-">>}) :
       \E answer \in Answers(in, fid) :
         \E canceller \in (IF answer THEN Cancellers(in, fid) ELSE {"-"}) :
           LET o == LoadResult(in, fid, answer, canceller)
           IN  /\ armed' = o.armed
               /\ marks' = o.marks
               /\ inflight' = inflight \cup {o.req[i] : i \in 1..Len(o.req)}
               /\ nreq' = nreq + Len(o.req)
               /\ log' = log \o [i \in 1..Len(o.req) |-> Sent(o.req[i])]
               /\ last' = [op |-> "load", in |-> in, fid |-> fid, answer |-> answer,
                           canceller |-> canceller, stage |-> o.stage, ret |-> o.ret,
                           prompted |-> o.prompted, hooks |-> o.hooks,
                           req |-> IF o.req = <<>> THEN 0 ELSE nreq + 1,
                           armed0 |-> armed, marks0 |-> marks, params |-> NoParams,
                           lu |-> NULL, pu |-> NULL]
  /\ ~loading /\ UNCHANGED << scan, loading, jsIncludes, head >>
  /\ UNCHANGED << cfg, lastUrl, previousUrl, ctrl, page, docTitle, hist, hidx, ninit, timers >>

(* ------------------------------------------------------------------ *)
(* The response callbacks                                              *)
(* ------------------------------------------------------------------ *)
\* every strategy is taken as fill
MergeSourceFill(tree, tid, srcNode, strategy) == setChildren(tree, tid, <<srcNode>>)

\* the strategy-based processing (_loadExec lines 1137-1154, _onpopstate
\* lines 1325-1339): srcNode merged at the node tid of the page
MergeSource(tree, tid, srcNode, strategy) ==
  IF strategy = "copy" THEN setChildren(tree, tid, srcNode.kids)
  ELSE IF strategy = "fill" THEN setChildren(tree, tid, <<srcNode>>)
  ELSE replaceWith(tree, tid, srcNode)

\* does the callback return before it has written anything (the source
\* selector returns nothing in the fetched document)
SourceMissing(r, doc) == ~r.raw /\ Truthy(r.source) /\ ~Resolves(doc, r.source)

\* "write the content in the right place" (_loadExec lines 1116-1157,
\* _onpopstate lines 1313-1342): the page after the merge of document doc
MergeContent(tree, r, doc) ==
  IF r.raw \/ ~Truthy(r.source) THEN setChildren(tree, r.tid, doc.kids)
  ELSE MergeSource(tree, r.tid, querySelector(doc, r.source), r.strategy)

\* window.history.pushState(state, "", url)
pushState(h, i, state, url) == SubSeq(h, 1, i) \o << [url |-> url, state |-> state] >>

\* the ghost test of line 1159 left out: every navigation is added
NotGhostAlways(r) == TRUE

\* _loadExec(), line 1159: the part skipped in ghost mode
NotGhost(r) == r.ghost # "true"

\* the comparison of line 1163 left out: no URL is a repetition
SameUrlNever(lu, url) == FALSE

\* _loadExec(), line 1163: "Same URL as the previous one"
SameUrl(lu, url) == lu = url

\* _loadExec(), lines 1159-1176: is the navigation added to the history
AddsToHistory(r, lu) == NotGhost(r) /\ ~SameUrl(lu, r.url)

\* _loadExec(), lines 1090-1114: the title of the page after the response
TitleAfter(r, doc, t) ==
  IF ~r.raw /\ r.ghost # "true" /\ Truthy(r.title) THEN doc.url ELSE t

\* the entry of the log of a request whose response was processed
Done(r, outcome, push) ==
  [req |-> r, sentAt |-> log[r.id].sentAt, outcome |-> outcome, at |-> Processed + 1,
   live |-> Attached(page, r.tid), pushed |-> push, lu |-> lastUrl, pu |-> previousUrl]

\* what the title selector finds in a fetched document: a node with its
\* text or attribute ("ok"), no node ("nonode"), a node whose text or
\* attribute is empty ("empty"), a node without the attribute ("noattr")
TitleCases == {"ok", "nonode", "empty", "noattr"}

\* _loadExec(), lines 1058-1065: the attribute named after the last slash
\* of the title selector, if any
TitleAttribute(title) == IF title = "meta/content" THEN "content" ELSE NULL

\* _loadExec(), line 1090: does the callback manage the title
ManagesTitle(r) == ~r.raw /\ r.ghost # "true" /\ Truthy(r.title)

\* _loadExec(), lines 1096-1111: is there a text to put in document.title
TitleFound(r, tc) == tc = "ok" \/ (tc = "noattr" /\ TitleAttribute(r.title) = NULL)

\* _loadExec(), line 1100: the warning for an empty title text reads
\* titleSelected, which is declared nowhere, and the callback ends there
\* with a ReferenceError
TitleThrows(r, tc) == ManagesTitle(r) /\ TitleAttribute(r.title) = NULL /\ tc = "empty"

\* _loadExec(), lines 1090-1114: the title of the page after the response,
\* for each case of title
TitleAfterCase(r, doc, t, tc) == IF TitleFound(r, tc) THEN TitleAfter(r, doc, t) ELSE t

\* the script elements of the documents: in every document node A holds
\* <script src="/lib.js"> and node B holds an inline script, whose text is
\* proper to the document, followed by <script src="/lib.js"> again
ScriptsAt(n) ==
  IF n.name = "A" THEN << [src |-> "/lib.js", text |-> "-"] >>
  ELSE IF n.name = "B"
    THEN << [src |-> ABSENT, text |-> n.url], [src |-> "/lib.js", text |-> "-"] >>
  ELSE <<>>

\* srcNode.querySelectorAll("script") (lines 1135 and 1323)
ScriptNodes(srcNode) ==
  LET s == NodeSeq(srcNode)
      RECURSIVE Cat(_)
      Cat(i) == IF i > Len(s) THEN <<>> ELSE ScriptsAt(s[i]) \o Cat(i + 1)
  IN  Cat(1)

\* the same loop without the test of line 1249: every script is appended
RECURSIVE loadScriptNodesAll(_, _, _, _)
loadScriptNodesAll(inc, hd, scriptNodes, by) ==
  IF scriptNodes = <<>> THEN [includes |-> inc, head |-> hd]
  ELSE LET n == Head(scriptNodes)
       IN  loadScriptNodesAll(IF n.src # ABSENT THEN inc \cup {n.src} ELSE inc,
                              Append(hd, [src |-> n.src, text |-> n.text, by |-> by]),
                              Tail(scriptNodes), by)

\* _loadScriptNodes(scriptNodes) (lines 1237-1259) called by the callback
\* of request by, when _jsIncludes is inc and the scripts appended to
\* <head> so far are hd: an external script already loaded is skipped,
\* every other script is appended
RECURSIVE loadScriptNodes(_, _, _, _)
loadScriptNodes(inc, hd, scriptNodes, by) ==
  IF scriptNodes = <<>> THEN [includes |-> inc, head |-> hd]
  ELSE LET n == Head(scriptNodes)
       IN  IF n.src # ABSENT /\ n.src \in inc
           THEN loadScriptNodes(inc, hd, Tail(scriptNodes), by)
           ELSE loadScriptNodes(IF n.src # ABSENT THEN inc \cup {n.src} ELSE inc,
                                Append(hd, [src |-> n.src, text |-> n.text, by |-> by]),
                                Tail(scriptNodes), by)

\* _jsIncludes and the scripts of <head> after the merge of document doc
\* for request r (_loadExec lines 1116-1157, _onpopstate lines 1313-1342):
\* the scripts are loaded when a source node was looked for and found
ScriptsAfter(inc, hd, r, doc) ==
  IF r.raw \/ ~Truthy(r.source) THEN [includes |-> inc, head |-> hd]
  ELSE loadScriptNodes(inc, hd, ScriptNodes(querySelector(doc, r.source)), r.id)

\* _loadExec(), lines 1183-1194: the "node-specific" post-callbacks, run by
\* the callback itself before it calls init()
SpecificPostHooks(r) == execCallback(ElementPostCallback(r.in))

\* the callback given to fetchHttp by _loadExec (lines 1088-1198), called
\* with the document of a 200 response whose title is of case tc
Respond(r, tc) ==
  LET doc == Doc(r.id, r.url)
      merged == MergeContent(page, r, doc)
      push == AddsToHistory(r, lastUrl)
  IN  /\ r \in inflight /\ r.kind = "load"
      /\ inflight' = inflight \ {r}
      /\ IF TitleThrows(r, tc)
         THEN /\ log' = [log EXCEPT ![r.id] = Done(r, "threw", FALSE)]
              /\ UNCHANGED << cfg, lastUrl, previousUrl, armed, marks, page, docTitle,
                              hist, hidx, timers >>
         ELSE /\ docTitle' = TitleAfterCase(r, doc, docTitle, tc)
              /\ IF SourceMissing(r, doc)
                 THEN /\ log' = [log EXCEPT ![r.id] = Done(r, "nosource", FALSE)]
                      /\ UNCHANGED << cfg, lastUrl, previousUrl, armed, marks, page,
                                      hist, hidx, timers >>
                 ELSE /\ page' = merged
                      /\ marks' = marks \cap FormsIn(merged)
                      /\ armed' = IF NotGhost(r) THEN FALSE ELSE armed
                      /\ lastUrl' = IF push THEN r.url ELSE lastUrl
                      /\ previousUrl' = IF push THEN lastUrl ELSE previousUrl
                      /\ hist' = IF push THEN pushState(hist, hidx, r.st, r.url) ELSE hist
                      /\ hidx' = IF push THEN hidx + 1 ELSE hidx
                      /\ cfg' = InitParamsFrom(cfg, GetParams(cfg))
                      /\ timers' = timers + 1
                      /\ log' = [log EXCEPT ![r.id] = Done(r, "merged", push)]
      /\ last' = [Quiet EXCEPT !.op = "response", !.req = r.id, !.stage = tc,
                               !.hooks = IF TitleThrows(r, tc) \/ SourceMissing(r, doc)
                                         THEN <<>> ELSE SpecificPostHooks(r),
                               !.lu = lastUrl', !.pu = previousUrl']
      /\ LET sc == IF TitleThrows(r, tc) \/ SourceMissing(r, doc)
                   THEN [includes |-> jsIncludes, head |-> head]
                   ELSE ScriptsAfter(jsIncludes, head, r, doc)
         IN  jsIncludes' = sc.includes /\ head' = sc.head
      /\ ~loading /\ UNCHANGED << scan, loading >>
      /\ UNCHANGED << ctrl, nreq, ninit >>

\* the same callback for a document with a title
RespondLoad(r) == Respond(r, "ok")

\* the two URLs left as the callback found them
ReplayUrlsKept(r, lu, pu) == [lastUrl |-> lu, previousUrl |-> pu]

\* _onpopstate(), lines 1343-1345: "set the last URL"
ReplayUrls(r, lu, pu) == [lastUrl |-> r.st.url, previousUrl |-> lu]

\* the callback given to fetchHttp by _onpopstate (lines 1311-1349)
RespondReplay(r) ==
  LET doc == Doc(r.id, r.url)
      merged == MergeContent(page, r, doc)
  IN  /\ r \in inflight /\ r.kind = "replay"
      /\ inflight' = inflight \ {r}
      /\ IF SourceMissing(r, doc)
         THEN /\ log' = [log EXCEPT ![r.id] = Done(r, "nosource", FALSE)]
              /\ UNCHANGED << cfg, lastUrl, previousUrl, marks, page, timers >>
         ELSE /\ page' = merged
              /\ marks' = marks \cap FormsIn(merged)
              /\ previousUrl' = ReplayUrls(r, lastUrl, previousUrl).previousUrl
              /\ lastUrl' = ReplayUrls(r, lastUrl, previousUrl).lastUrl
              /\ cfg' = InitParamsFrom(cfg, GetParams(cfg))
              /\ timers' = timers + 1
              /\ log' = [log EXCEPT ![r.id] = Done(r, "merged", FALSE)]
      /\ last' = [Quiet EXCEPT !.op = "replayed", !.req = r.id]
      /\ LET sc == IF SourceMissing(r, doc)
                   THEN [includes |-> jsIncludes, head |-> head]
                   ELSE ScriptsAfter(jsIncludes, head, r, doc)
         IN  jsIncludes' = sc.includes /\ head' = sc.head
      /\ ~loading /\ UNCHANGED << scan, loading >>
      /\ UNCHANGED << armed, ctrl, docTitle, hist, hidx, nreq, ninit >>

\* the handler called whatever the status of the response is
FailMerged(r) ==
  /\ r \in inflight
  /\ inflight' = inflight \ {r}
  /\ page' = MergeContent(page, r, Doc(r.id, r.url))
  /\ log' = [log EXCEPT ![r.id] = [@ EXCEPT !.outcome = "failed"]]
  /\ last' = [Quiet EXCEPT !.op = "failed", !.req = r.id]
  /\ ~loading /\ UNCHANGED << scan, loading, jsIncludes, head >>
  /\ UNCHANGED << cfg, lastUrl, previousUrl, armed, ctrl, marks, docTitle, hist, hidx,
                  nreq, ninit, timers >>

\* fetchHttp(), lines 1388-1390: the request fails or its status is not 200,
\* and the callback is never called
Fail(r) ==
  /\ r \in inflight
  /\ inflight' = inflight \ {r}
  /\ log' = [log EXCEPT ![r.id] = [@ EXCEPT !.outcome = "failed"]]
  /\ last' = [Quiet EXCEPT !.op = "failed", !.req = r.id]
  /\ ~loading /\ UNCHANGED << scan, loading, jsIncludes, head >>
  /\ UNCHANGED << cfg, lastUrl, previousUrl, armed, ctrl, marks, page, docTitle, hist, hidx,
                  nreq, ninit, timers >>

(* ------------------------------------------------------------------ *)
(* Backward / forward buttons                                          *)
(* ------------------------------------------------------------------ *)
\* the target of the state record left unread
ReplayTargetGlobal(c, tree, state) ==
  IF Truthy(c.target) /\ Resolves(tree, c.target) THEN c.target ELSE NULL

\* _onpopstate(), lines 1294-1300: the selector whose node is the target of
\* the replay, or NULL when neither the state's nor the global one resolves
ReplayTarget(c, tree, state) ==
  IF Truthy(state.target) /\ Resolves(tree, state.target) THEN state.target
  ELSE IF Truthy(c.target) /\ Resolves(tree, c.target) THEN c.target
  ELSE NULL

\* _onpopstate(), line 1307
ReplaySource(c, state) == IF state.source # ABSENT THEN state.source ELSE c.source

\* _onpopstate(), line 1309
ReplayStrategy(c, state) == IF Truthy(state.strategy) THEN state.strategy ELSE c.strategy

\* _onpopstate(), lines 1306-1311: the request of the replay of state
ReplayRequest(c, tree, id, state) ==
  [id |-> id, kind |-> "replay", in |-> NoInput, url |-> state.url,
   real |-> << state.url >>,
   target |-> ReplayTarget(c, tree, state),
   tid |-> NodeId(querySelector(tree, ReplayTarget(c, tree, state))),
   ghost |-> "-", source |-> ReplaySource(c, state),
   strategy |-> ReplayStrategy(c, state), title |-> NULL,
   raw |-> ~Truthy(ReplaySource(c, state)), post |-> FALSE, st |-> state]

\* the handler lets the browser load the page whatever the entry is
BrowserLoadingAlways(c, tree, state) == TRUE

\* _onpopstate(), lines 1289 and 1301: does the handler let the browser load
\* the page
BrowserLoading(c, tree, state) == ~state.has \/ ReplayTarget(c, tree, state) = NULL

\* the user goes d entries forward (d = 1) or backward (d = -1): the browser
\* makes that entry the current one and sends popstate with its state
Popstate(d) ==
  LET i == hidx + d
      state == hist[i].state
  IN  /\ ~loading
      /\ i \in 1..Len(hist)
      /\ hidx' = i
      /\ IF BrowserLoading(cfg, page, state)
         THEN \* window.location.href = document.location
              /\ loading' = TRUE
              /\ last' = [Quiet EXCEPT !.op = "popstate", !.stage = "reload"]
              /\ UNCHANGED << inflight, nreq, log >>
         ELSE /\ inflight' = inflight \cup {ReplayRequest(cfg, page, nreq + 1, state)}
              /\ nreq' = nreq + 1
              /\ log' = Append(log, Sent(ReplayRequest(cfg, page, nreq + 1, state)))
              /\ last' = [Quiet EXCEPT !.op = "popstate", !.stage = "requested", !.req = nreq + 1]
              /\ UNCHANGED loading
      /\ UNCHANGED << cfg, lastUrl, previousUrl, armed, ctrl, marks, page, docTitle, hist,
                      ninit, timers, scan, jsIncludes, head >>

\* the browser loads the current location anew: the page, its scripts and
\* its pending requests and timers are dropped and the scripts of the new
\* page start again; the page handles no other event before that
BrowserLoads ==
  /\ loading
  /\ loading' = FALSE
  /\ cfg' = DefaultConfig
  /\ lastUrl' = NULL
  /\ previousUrl' = NULL
  /\ armed' = FALSE
  /\ ctrl' = FALSE
  /\ marks' = {}
  /\ page' = Doc(0, hist[hidx].url)
  /\ docTitle' = hist[hidx].url
  /\ inflight' = {}
  /\ timers' = 0
  /\ scan' = NoScan
  /\ jsIncludes' = {}
  /\ head' = <<>>
  /\ log' = [j \in 1..Len(log) |->
               IF log[j].outcome = "flight"
               THEN [log[j] EXCEPT !.outcome = "unloaded"] ELSE log[j]]
  /\ last' = [Quiet EXCEPT !.op = "loaded"]
  /\ UNCHANGED << hist, hidx, nreq, ninit >>

(* ------------------------------------------------------------------ *)
(* init(), the guard's entry points and the control key                *)
(* ------------------------------------------------------------------ *)
\* init(params) called by the page's script (lines 679-683)
VikInit(params) ==
  /\ ninit' = ninit + 1
  /\ cfg' = InitParamsFrom(cfg, params)
  /\ timers' = timers + 1
  /\ last' = [Quiet EXCEPT !.op = "init", !.params = params]
  /\ ~loading /\ UNCHANGED << scan, loading, jsIncludes, head >>
  /\ UNCHANGED << lastUrl, previousUrl, armed, ctrl, marks, page, docTitle, hist, hidx,
                  inflight, nreq, log >>

\* a handler that runs the post-callbacks and sends no event
PostHooksNoEvent(c) == execCallback(c.postCallback)

\* the attributes of the forms of the documents: form f1 sends with GET to
\* /a (the document served at /a leaves its method attribute out), form f2
\* sends with POST to /b (the document served at /b marks it data-vik="true");
\* no form has a target attribute or an onsubmit attribute of its own
FormAttrs(n) ==
  IF n.name = "f1"
  THEN [method |-> IF n.url = "/a" THEN ABSENT ELSE "get", action |-> "/a",
        dataVik |-> ABSENT, target |-> ABSENT]
  ELSE [method |-> "post", action |-> "/b",
        dataVik |-> IF n.url = "/b" THEN "true" ELSE ABSENT, target |-> ABSENT]

\* [action^='/']:not([action^='//'])
SingleSlash(action) == action \in {"/", "/a", "/b"}

\* the same selector without its :not([onsubmit]) parts
FormMatchesBound(sel, a, onsubmit) ==
  /\ sel = DefaultConfig.formsSelector
  /\ \/ /\ a.method = "get" /\ SingleSlash(a.action)
        /\ a.dataVik # "false" /\ a.target = ABSENT
     \/ a.dataVik = "true"

\* does a form with attributes a match the forms selector (lines 588-600;
\* onsubmit: the form has an onsubmit attribute); the selectors a page
\* gives in place of the default one match no form of these documents
FormMatches(sel, a, onsubmit) ==
  /\ sel = DefaultConfig.formsSelector
  /\ ~onsubmit
  /\ \/ /\ a.method = "get" /\ SingleSlash(a.action)
        /\ a.dataVik # "false" /\ a.target = ABSENT
     \/ a.dataVik = "true"

\* the form nodes of a tree
FormNodes(tree) ==
  LET s == NodeSeq(tree) IN {s[i] : i \in {j \in 1..Len(s) : s[j].name \in FormNames}}

\* elem.setAttribute("onclick" / "onsubmit", ...) on each element of els
\* (lines 965 and 983): one more call counted for each of them
SetAttribute(sets, els) ==
  [id \in DOMAIN sets \cup els |->
     (IF id \in DOMAIN sets THEN sets[id] ELSE 0) + (IF id \in els THEN 1 ELSE 0)]

\* _initFormNodes() and _initFormFields() (lines 971-1003): the forms the
\* selector matches get the onsubmit trigger, and their fields the onchange
\* handler when the management of the confirmation is on (no form of these
\* documents has a data-vik-quit-page-confirmation attribute)
ScanForms(c, tree, sc) ==
  LET els == {NodeId(n) : n \in {m \in FormNodes(tree) :
                                   FormMatches(c.formsSelector, FormAttrs(m),
                                               NodeId(m) \in sc.bound)}}
  IN  [sc EXCEPT !.bound = sc.bound \cup els,
                 !.tracked = sc.tracked \cup
                               (IF Truthy(c.manageQuitPageConfirmation) THEN els ELSE {}),
                 !.sets = SetAttribute(sc.sets, els)]

\* the attributes of the links of the documents: node A is <a href="/a">,
\* node B is <a href="/b">, which the document served at /a marks
\* data-vik="false" and the document served at /b gives an external href;
\* no link has a target attribute or an onclick attribute of its own
LinkAttrs(n) ==
  IF n.name = "A" THEN [href |-> "/a", dataVik |-> ABSENT, target |-> ABSENT]
  ELSE [href |-> IF n.url = "/b" THEN "//cdn/b" ELSE "/b",
        dataVik |-> IF n.url = "/a" THEN "false" ELSE ABSENT, target |-> ABSENT]

\* does a link with attributes a match the links selector (lines 574-585;
\* onclick: the link has an onclick attribute); the selectors a page gives
\* in place of the default one match no link of these documents
LinkMatches(sel, a, onclick) ==
  /\ sel = DefaultConfig.linksSelector
  /\ ~onclick
  /\ a.target = ABSENT
  /\ \/ SingleSlash(a.href) /\ a.dataVik # "false"
     \/ a.dataVik = "true"

\* the link nodes of a tree
LinkNodes(tree) ==
  LET s == NodeSeq(tree) IN {s[i] : i \in {j \in 1..Len(s) : s[j].name \in {"A", "B"}}}

\* _initLinkNodes() (lines 955-967): the links the selector matches get the
\* onclick trigger
ScanLinks(c, tree, sc) ==
  LET els == {NodeId(n) : n \in {m \in LinkNodes(tree) :
                                   LinkMatches(c.linksSelector, LinkAttrs(m),
                                               NodeId(m) \in sc.links)}}
  IN  [sc EXCEPT !.links = sc.links \cup els, !.sets = SetAttribute(sc.sets, els)]

\* what the document-ready handler delivers: the global post-callbacks,
\* then the vik:postLoad event (lines 696-702)
PostHooks(c) == execCallback(c.postCallback) \o << "vik:postLoad" >>

\* the handler init() gave to onDocumentReady (lines 683-703)
DocumentReady ==
  /\ timers > 0
  /\ timers' = timers - 1
  /\ ~loading /\ UNCHANGED << loading, jsIncludes, head >>
  /\ scan' = ScanForms(cfg, page, ScanLinks(cfg, page, scan))
  /\ last' = [Quiet EXCEPT !.op = "ready", !.hooks = PostHooks(cfg),
                           !.lu = lastUrl, !.pu = previousUrl]
  /\ UNCHANGED << cfg, lastUrl, previousUrl, armed, ctrl, marks, page, docTitle, hist, hidx,
                  inflight, nreq, ninit, log >>

\* _inputChanged(node) for an input of form f of the page (lines 1016-1021)
InputChanged(f) ==
  /\ f \in FormsIn(page)
  /\ armed' = TRUE
  /\ marks' = marks \cup {f}
  /\ last' = [Quiet EXCEPT !.op = "changed"]
  /\ ~loading /\ UNCHANGED << scan, loading, jsIncludes, head >>
  /\ UNCHANGED << cfg, lastUrl, previousUrl, ctrl, page, docTitle, hist, hidx,
                  inflight, nreq, ninit, timers, log >>

\* setQuitPageConfirmation(activated) called by the page (lines 896-905)
SetQuitPageConfirmation(activated) ==
  /\ armed' = activated
  /\ last' = [Quiet EXCEPT !.op = "setQuit"]
  /\ ~loading /\ UNCHANGED << scan, loading, jsIncludes, head >>
  /\ UNCHANGED << cfg, lastUrl, previousUrl, ctrl, marks, page, docTitle, hist, hidx,
                  inflight, nreq, ninit, timers, log >>

\* the keydown / keyup listeners of the control key (lines 640-647)
ControlKey(down) ==
  /\ ctrl' = down
  /\ last' = [Quiet EXCEPT !.op = "key"]
  /\ ~loading /\ UNCHANGED << scan, loading, jsIncludes, head >>
  /\ UNCHANGED << cfg, lastUrl, previousUrl, armed, marks, page, docTitle, hist, hidx,
                  inflight, nreq, ninit, timers, log >>

(* ------------------------------------------------------------------ *)
(* The elements of the pages and the calls of load()                   *)
(* ------------------------------------------------------------------ *)
Link(u) == [BaseInput EXCEPT !.url = u]

Form(f, m, u) == [BaseInput EXCEPT !.kind = "form", !.form = f, !.method = m, !.url = u]

UrlString(u) == [BaseInput EXCEPT !.kind = "url", !.url = u]

Inputs ==
  { Link("/a"), Link("/b"),
    [Link("/a") EXCEPT !.aGhost = "true"],
    [Link("/b") EXCEPT !.aGhost = "false"],
    [Link("/b") EXCEPT !.aTarget = "#t", !.aSource = "#x", !.aStrategy = "replace"],
    [Link("/a") EXCEPT !.aTarget = "#t", !.aSource = "#x", !.aStrategy = "fill"],
    [Link("/a") EXCEPT !.aTarget = "#t", !.aSource = "#x", !.aStrategy = "copy"],
    [Link("/b") EXCEPT !.aPre = "localPre"],
    [Link("/a") EXCEPT !.url = ABSENT],
    UrlString("/b"),
    [UrlString("/a") EXCEPT !.pGhost = "false"],
    [BaseInput EXCEPT !.kind = "none"],
    Form("f1", "get", "/a"),
    [Form("f1", "get", "/a") EXCEPT !.aGhost = "true"],
    [Form("f1", "get", "/a") EXCEPT !.aValidation = "reject"],
    Form("f2", "post", "/b"),
    [Form("f2", "post", "/b") EXCEPT !.aGhost = "false"] }

\* every handler, over every element and configuration
Next ==
  \/ nreq < MaxReq /\ \E in \in Inputs : Load(in)
  \/ \E r \in inflight : RespondLoad(r)
  \/ \E r \in inflight : RespondReplay(r)
  \/ \E r \in inflight : Fail(r)
  \/ nreq < MaxReq /\ \E d \in {-1, 1} : Popstate(d)
  \/ BrowserLoads
  \/ ninit < MaxInit /\ \E c \in UserConfigs : VikInit(c)
  \/ DocumentReady
  \/ \E f \in FormsIn(page) : InputChanged(f)
  \/ \E b \in BOOLEAN : SetQuitPageConfirmation(b)
  \/ \E b \in BOOLEAN : ControlKey(b)

Spec == Init /\ [][Next]_vars

(* ------------------------------------------------------------------ *)
(* The same handlers over the elements and configurations of one part  *)
(* of the behaviour at a time                                          *)
(* ------------------------------------------------------------------ *)
\* forward navigations and their responses, in runs of at most n requests
Forward(inputs, configs, n) ==
  \/ nreq < n /\ \E in \in inputs : Load(in)
  \/ \E r \in inflight : RespondLoad(r)
  \/ ninit < MaxInit /\ \E c \in configs : VikInit(c)

\* the history buttons and the responses of the replays
Replays(n) ==
  \/ nreq < n /\ \E d \in {-1, 1} : Popstate(d)
  \/ \E r \in inflight : RespondReplay(r)
  \/ BrowserLoads

\* the form fields and the guard
Guard ==
  \/ \E f \in FormsIn(page) : InputChanged(f)
  \/ \E b \in BOOLEAN : SetQuitPageConfirmation(b)

GhostOn == [NoParams EXCEPT !.ghost = "true"]

\* ghost mode: ghost and plain links, a URL string, ghost set globally or not
GhostInputs ==
  { Link("/b"), [Link("/a") EXCEPT !.aGhost = "true"], UrlString("/b"), Form("f2", "post", "/a") }

NextGhost == Forward(GhostInputs, {GhostOn}, MaxReq)

SpecGhost == Init /\ [][NextGhost]_vars

\* two links, activated up to three times while the page keeps its defaults
TwiceInputs == { Link("/a"), Link("/b") }

NextTwice == Forward(TwiceInputs, {NoParams}, MaxReq + 1)

SpecTwice == Init /\ [][NextTwice]_vars

\* pre-callbacks: a link with its own pre-callback and one without, in a
\* page that registers two global pre-callbacks or none
HooksOn == [NoParams EXCEPT !.preCallback = List(<<"globalPre", "otherPre">>)]

HooksInputs == { [Link("/a") EXCEPT !.aPre = "localPre"], Link("/b") }

NextHooks == Forward(HooksInputs, {HooksOn}, MaxReq)

SpecHooks == Init /\ [][NextHooks]_vars

\* the confirmation before leaving a page with changed forms: a link, a URL
\* string, a GET form (ghost or not) and a POST form, the fields of the two
\* forms of the page, ghost set globally or not
GuardInputs ==
  { Link("/a"), UrlString("/b"), Form("f1", "get", "/a"),
    [Form("f1", "get", "/b") EXCEPT !.aGhost = "true"], Form("f2", "post", "/b") }

NextGuard ==
  \/ Forward(GuardInputs, {GhostOn}, MaxReq - 1)
  \/ Guard

SpecGuard == Init /\ [][NextGuard]_vars

\* the history buttons: a link that fills #t with #x, a link that merges #t
\* in the global target with the global strategy (replace puts #t in the
\* place of the body, copy leaves a body without #t), in a page whose
\* global strategy may become copy
ReplayInputs ==
  { [Link("/a") EXCEPT !.aTarget = "#t", !.aSource = "#x", !.aStrategy = "fill"],
    [Link("/b") EXCEPT !.aSource = "#t"] }

CopyOn == [NoParams EXCEPT !.strategy = "copy"]

NextReplay ==
  \/ Forward(ReplayInputs, {CopyOn}, MaxReq + 1)
  \/ Replays(MaxReq + 1)

SpecReplay == Init /\ [][NextReplay]_vars

\* data-vik-ghost="false" on a link, on a GET form and on a POST form, in a
\* page that may set ghost globally
OverrideInputs ==
  { [Link("/a") EXCEPT !.aGhost = "false"],
    [Form("f1", "get", "/b") EXCEPT !.aGhost = "false"],
    [Form("f2", "post", "/b") EXCEPT !.aGhost = "false"] }

NextOverride == Forward(OverrideInputs, {GhostOn}, MaxReq)

SpecOverride == Init /\ [][NextOverride]_vars

\* the three strategies: three links that merge #x of their page at #t
MergeInputs ==
  { [Link("/a") EXCEPT !.aTarget = "#t", !.aSource = "#x", !.aStrategy = "replace"],
    [Link("/b") EXCEPT !.aTarget = "#t", !.aSource = "#x", !.aStrategy = "fill"],
    [Link("/a") EXCEPT !.aTarget = "#t", !.aSource = "#x", !.aStrategy = "copy"] }

NextMerge == Forward(MergeInputs, {CopyOn}, MaxReq)

SpecMerge == Init /\ [][NextMerge]_vars

\* re-entrant triggers: two plain links and the history buttons, with the
\* default configuration
NextRace ==
  \/ Forward(TwiceInputs, {NoParams}, MaxReq)
  \/ Replays(MaxReq)

SpecRace == Init /\ [][NextRace]_vars

\* failures: the requests of two plain links and of the replays may fail
NextFail ==
  \/ Forward(TwiceInputs, {NoParams}, MaxReq + 1)
  \/ Replays(MaxReq + 1)
  \/ \E r \in inflight : Fail(r)

SpecFail == Init /\ [][NextFail]_vars

\* a source selector that matches nothing in the fetched documents, on a
\* link and on a ghost link, next to a plain link
MissingInputs ==
  { [Link("/a") EXCEPT !.aSource = "#none"],
    [Link("/a") EXCEPT !.aSource = "#none", !.aGhost = "true"],
    Link("/b") }

NextMissing == Forward(MissingInputs, {GhostOn}, MaxReq)

SpecMissing == Init /\ [][NextMissing]_vars

\* the titles of the fetched documents: two plain links, in a page whose
\* title selector may name an attribute, and documents of every title case
TitleAttrOn == [NoParams EXCEPT !.title = "meta/content"]

NextTitle ==
  \/ nreq < MaxReq /\ \E in \in TwiceInputs : Load(in)
  \/ \E r \in inflight : \E tc \in TitleCases : Respond(r, tc)
  \/ ninit < MaxInit /\ \E c \in {TitleAttrOn} : VikInit(c)

SpecTitle == Init /\ [][NextTitle]_vars

\* post-hooks: two links and a ghost link followed and replayed in a page
\* that registers two global post-callbacks; requests may fail and the
\* handlers scheduled by init() run at any later time
PostOn == [NoParams EXCEPT !.postCallback = List(<< "globalPost", "otherPost" >>)]

PostInputs == TwiceInputs \cup { [Link("/a") EXCEPT !.aGhost = "true"] }

NextPost ==
  \/ Forward(PostInputs, {PostOn}, MaxReq)
  \/ Replays(MaxReq)
  \/ \E r \in inflight : Fail(r)
  \/ DocumentReady

SpecPost == Init /\ [][NextPost]_vars

\* the order of the pre-hooks: load() called with a pre-callback of its own
\* for a link that has one too, for a link that has none, and without any,
\* in a page that registers two global pre-callbacks
OrderInputs ==
  { [Link("/a") EXCEPT !.pPre = "sitePre", !.aPre = "localPre"],
    [Link("/b") EXCEPT !.pPre = "sitePre"],
    [Link("/b") EXCEPT !.aPre = "localPre"],
    Link("/a") }

NextOrder == Forward(OrderInputs, {HooksOn}, MaxReq)

SpecOrder == Init /\ [][NextOrder]_vars

\* init() called again: the page's scripts call init() up to MaxInit + 1
\* times, with no parameter, with selectors and a confirmation text of
\* their own, or with a target and a forms selector, between navigations
InitConfigs ==
  { NoParams,
    [NoParams EXCEPT !.linksSelector = "a.nav", !.quitPageConfirmationText = "Leave?",
                     !.ghost = "true"],
    [NoParams EXCEPT !.formsSelector = "form.nav", !.target = "#t"] }

NextInit ==
  \/ nreq < MaxReq /\ \E in \in TwiceInputs : Load(in)
  \/ \E r \in inflight : RespondLoad(r)
  \/ ninit < MaxInit + 1 /\ \E c \in InitConfigs : VikInit(c)

SpecInit == Init /\ [][NextInit]_vars

\* load(element, params) called by a script with parameters of its own for
\* links whose attributes set the same fields, or leave them unset
SiteInputs ==
  { [Link("/a") EXCEPT !.pGhost = "true", !.aGhost = "false"],
    [Link("/b") EXCEPT !.pStrategy = "fill", !.aStrategy = "copy",
                       !.pTarget = "#t", !.aTarget = "body"],
    [Link("/b") EXCEPT !.pGhost = "true", !.pTarget = "#t"],
    Link("/a") }

NextSite == Forward(SiteInputs, {NoParams}, MaxReq)

SpecSite == Init /\ [][NextSite]_vars

\* the tokens of data-vik-ghost: links whose attribute is one of the ten
\* tokens or another word, in a page whose global ghost is set or not
GhostTokens ==
  { "true", "on", "yes", "enable", "1", "false", "off", "no", "disable", "0", "maybe" }

TokenInputs == { [Link("/a") EXCEPT !.aGhost = t] : t \in GhostTokens }

NextTokens == Forward(TokenInputs, {GhostOn, NoParams}, MaxReq - 1)

SpecTokens == Init /\ [][NextTokens]_vars

\* strategies no merge knows: given to init(), written in data-vik-strategy
\* or given to load() by the calling script, then replayed from the history
UnknownStrategyOn == [NoParams EXCEPT !.strategy = "append"]

StrategyInputs ==
  { [Link("/a") EXCEPT !.pStrategy = "append"],
    [Link("/b") EXCEPT !.aStrategy = "append"],
    [Link("/b") EXCEPT !.aStrategy = "copy", !.pStrategy = "append"] }

NextStrategy ==
  \/ Forward(StrategyInputs, {UnknownStrategyOn}, MaxReq)
  \/ Replays(MaxReq + 1)

SpecStrategy == Init /\ [][NextStrategy]_vars

\* what load() returns: no input, a link, a link without URL, a link with
\* data-vik-method="post", a URL string, a form and a form whose validation
\* callback refuses, with the control key held or not, form fields changed
\* or not, in a page that registers global pre-callbacks
ReturnInputs ==
  { [BaseInput EXCEPT !.kind = "none"],
    Link("/a"),
    Link(ABSENT),
    [Link("/b") EXCEPT !.aMethod = "post"],
    UrlString("/b"),
    Form("f1", "get", "/a"),
    [Form("f2", "post", "/b") EXCEPT !.aValidation = "reject"] }

NextReturn ==
  \/ Forward(ReturnInputs, {HooksOn}, MaxReq - 1)
  \/ \E f \in FormsIn(page) : InputChanged(f)
  \/ \E b \in BOOLEAN : ControlKey(b)

SpecReturn == Init /\ [][NextReturn]_vars

\* forms sent: a GET form, a POST form and a link, default configuration
FormInputs == { Form("f1", "get", "/a"), Form("f2", "post", "/b"), Link("/b") }

NextForms == Forward(FormInputs, {NoParams}, MaxReq)

SpecForms == Init /\ [][NextForms]_vars

\* the scan of the forms: two links followed with the default selectors,
\* the document-ready handlers running at any later time
NextScan ==
  \/ Forward(TwiceInputs, {NoParams}, MaxReq)
  \/ DocumentReady

SpecScan == Init /\ [][NextScan]_vars

\* the history buttons when the target may be gone: the global target is
\* #t, a link replaces #t by the #x of its document, another link replaces
\* the body by it, and the user goes backward and forward
TargetOn == [NoParams EXCEPT !.target = "#t", !.source = "#x"]

PopInputs == { Link("/a"), [Link("/b") EXCEPT !.aTarget = "body"] }

NextPop ==
  \/ Forward(PopInputs, {TargetOn}, MaxReq)
  \/ Replays(MaxReq + 1)

SpecPop == Init /\ [][NextPop]_vars

\* form validation: forms whose validation callback refuses or accepts, a
\* form without one and a link, their fields changed or not, in a page
\* that registers global pre-callbacks
ValidInputs ==
  { [Form("f1", "get", "/a") EXCEPT !.aValidation = "reject"],
    [Form("f2", "post", "/b") EXCEPT !.aValidation = "reject"],
    [Form("f1", "get", "/a") EXCEPT !.aValidation = "accept"],
    Form("f2", "post", "/b"), Link("/a") }

NextValid ==
  \/ Forward(ValidInputs, {HooksOn}, MaxReq - 1)
  \/ Guard

SpecValid == Init /\ [][NextValid]_vars

\* what the post-hooks see: a link, a POST form and a URL string loaded
\* with the default configuration, the document-ready handlers running at
\* any later time
SeenInputs == { Link("/a"), Form("f2", "post", "/b"), UrlString("/b") }

NextSeen ==
  \/ Forward(SeenInputs, {NoParams}, MaxReq)
  \/ DocumentReady

SpecSeen == Init /\ [][NextSeen]_vars

\* lastUrl and previousUrl: two links and a ghost link followed, and the
\* history buttons
NextPrev ==
  \/ Forward(PostInputs, {NoParams}, MaxReq)
  \/ Replays(MaxReq + 1)

SpecPrev == Init /\ [][NextPrev]_vars

\* the guard driven by the forms only: fields changed, forms and links
\* sent, confirmations answered, no call of setQuitPageConfirmation() by
\* the page
NextDirty ==
  \/ Forward(GuardInputs, {GhostOn}, MaxReq - 1)
  \/ \E f \in FormsIn(page) : InputChanged(f)

SpecDirty == Init /\ [][NextDirty]_vars

\* the configuration across navigations: the page turns the management of
\* the confirmation off and gives a text, a target and selectors of its
\* own, then links are followed and replayed
QuitOff ==
  [NoParams EXCEPT !.manageQuitPageConfirmation = "false",
                   !.quitPageConfirmationText = "Leave?",
                   !.title = NULL, !.strategy = "fill"]

NextKeep ==
  \/ Forward(TwiceInputs, {QuitOff}, MaxReq)
  \/ Replays(MaxReq)
  \/ DocumentReady

SpecKeep == Init /\ [][NextKeep]_vars

\* the post-callback of an element: a link that carries a
\* data-vik-post-callback attribute and one that carries none, in a page
\* with global post-callbacks
AfterInputs == { [Link("/b") EXCEPT !.aPost = "localPost"], Link("/a") }

NextAfter ==
  \/ Forward(AfterInputs, {PostOn}, MaxReq)
  \/ DocumentReady

SpecAfter == Init /\ [][NextAfter]_vars

\* navigations given up after load() was entered: a link, a link whose
\* target selector matches nothing and a GET form, in a page that registers
\* global pre-callbacks; fields are changed and requests may fail
AbortInputs ==
  { Link("/a"), [Link("/b") EXCEPT !.aTarget = "#nope"], Form("f1", "get", "/a") }

NextAbort ==
  \/ Forward(AbortInputs, {HooksOn}, MaxReq - 1)
  \/ Guard
  \/ \E r \in inflight : Fail(r)

SpecAbort == Init /\ [][NextAbort]_vars

\* the prefix of the fetched URLs: a link that takes the global prefix and
\* a link with a data-vik-prefix attribute, followed and replayed, in a page
\* that sets a global prefix or none
PrefixOn == [NoParams EXCEPT !.urlPrefix = "/p"]

PrefixInputs == { Link("/a"), [Link("/b") EXCEPT !.aPrefix = "/q"] }

NextPrefix ==
  \/ Forward(PrefixInputs, {PrefixOn}, MaxReq)
  \/ Replays(MaxReq + 1)

SpecPrefix == Init /\ [][NextPrefix]_vars

\* replays under the guard: two links followed and replayed while the
\* fields of form f1 are changed, in a page that may set a global source
\* selector that matches nothing in the fetched documents
SourceGone == [NoParams EXCEPT !.source = "#nope"]

NextBack ==
  \/ Forward(TwiceInputs, {SourceGone}, MaxReq)
  \/ Replays(MaxReq + 1)
  \/ \E f \in FormsIn(page) : f[2] = "f1" /\ InputChanged(f)

SpecBack == Init /\ [][NextBack]_vars

\* the scripts of the merged fragments: two links followed and replayed
\* with the default configuration (the source is the body of the fetched
\* document)
NextScripts ==
  \/ Forward(TwiceInputs, {NoParams}, MaxReq)
  \/ Replays(MaxReq + 1)

SpecScripts == Init /\ [][NextScripts]_vars

\* scans after content swaps: a link merged into the body and a link whose
\* source #x is merged into #t, so that the forms of the page stay, with the
\* default selectors, the document-ready handlers running at any later time
RescanInputs ==
  { Link("/a"), [Link("/b") EXCEPT !.aTarget = "#t", !.aSource = "#x"] }

NextRescan ==
  \/ Forward(RescanInputs, {NoParams}, MaxReq)
  \/ DocumentReady

SpecRescan == Init /\ [][NextRescan]_vars

(* ------------------------------------------------------------------ *)
(* Properties                                                          *)
(* ------------------------------------------------------------------ *)
\* the step sends request i
Sends(i) == Len(log) < i /\ Len(log') >= i

\* the step is the callback of request i, run to its end or to the return
\* at a missing source
Processes(i) == i <= Len(log) /\ log[i].outcome = "flight" /\ log'[i].at > 0

\* the session history and the two URLs kept by the library are left alone
HistoryUntouched ==
  /\ hist' = hist /\ hidx' = hidx
  /\ lastUrl' = lastUrl /\ previousUrl' = previousUrl

\* C1: a navigation started by load() whose effective ghost value is true
\* pushes no history entry and changes neither lastUrl nor previousUrl, when
\* load() sends its request and when its successful response is processed.
GhostLeavesHistory ==
  [][\A i \in 1..Len(log') :
       (log'[i].req.kind = "load" /\ log'[i].req.ghost = "true" /\ (Sends(i) \/ Processes(i)))
          => HistoryUntouched]_vars

\* C1 (witness): the response of a ghost navigation was merged in a page that
\* has a last URL and a history entry pushed before
GhostMergedAfterPush ==
  \E i \in 1..Len(log) :
    /\ log[i].req.kind = "load" /\ log[i].req.ghost = "true"
    /\ log[i].outcome = "merged"
    /\ log[i].lu # NULL /\ Len(hist) > 1

\* requests i and i+1 come from two activations in a row of the same link,
\* neither is ghost and both responses were merged
SameLinkTwice(i) ==
  /\ i + 1 <= Len(log)
  /\ log[i].req.kind = "load" /\ log[i + 1].req.kind = "load"
  /\ log[i].req.in.kind = "link" /\ log[i + 1].req.in = log[i].req.in
  /\ log[i].req.ghost # "true" /\ log[i + 1].req.ghost # "true"
  /\ log[i].outcome = "merged" /\ log[i + 1].outcome = "merged"

\* of the requests i and i+1, the one whose response was processed first
FirstBack(i) == IF log[i].at < log[i + 1].at THEN i ELSE i + 1

\* the two responses were processed one right after the other, and the URL
\* was not the last URL yet when the first of them arrived
InARow(i) ==
  /\ log[i].at - log[i + 1].at \in {-1, 1}
  /\ log[FirstBack(i)].lu # log[i].req.url

\* C2: two activations in a row of the same non-ghost link, both answered,
\* push exactly one history entry (the response processed first pushes it,
\* the other finds the URL as last URL and pushes nothing), whether the
\* second activation came after the first response or while the first
\* request was in flight, and whatever the order of the two responses.
SameLinkPushesOnce ==
  \A i \in 1..Len(log) :
    (SameLinkTwice(i) /\ InARow(i))
       => /\ log[FirstBack(i)].pushed
          /\ ~log[(2 * i + 1) - FirstBack(i)].pushed

\* C2 (witness): the second activation was made while the first request was
\* in flight and its response came back first
SecondOvertakesFirst ==
  \E i \in 1..Len(log) :
    /\ SameLinkTwice(i) /\ InARow(i)
    /\ log[i + 1].sentAt < log[i].at
    /\ log[i + 1].at < log[i].at

\* the pre-callbacks of element in and of the page, then the event
AllPreHooks(in) ==
  (IF in.aPre # ABSENT THEN <<in.aPre>> ELSE <<>>)
     \o execCallback(cfg.preCallback) \o <<"vik:preLoad">>

\* C3: when a pre-callback or a vik:preLoad listener cancels the event during
\* load(), no request is issued and no history entry is pushed for that
\* navigation, and every pre-callback of the merged list and the dispatch of
\* vik:preLoad were still executed.
CancelledLoadSendsNothing ==
  [][(last'.op = "load" /\ last'.canceller # "-")
       => /\ last'.stage = "cancelled" /\ last'.req = 0
          /\ nreq' = nreq /\ inflight' = inflight /\ log' = log
          /\ hist' = hist /\ hidx' = hidx
          /\ lastUrl' = lastUrl /\ previousUrl' = previousUrl
          /\ last'.hooks = AllPreHooks(last'.in)]_vars

\* C3 (witness): the element's pre-callback, first of four hooks, cancelled
FirstHookCancelled ==
  /\ last.op = "load" /\ last.canceller = "localPre"
  /\ last.hooks = <<"localPre", "globalPre", "otherPre", "vik:preLoad">>
  /\ last.stage = "cancelled"

\* the step is a call of load() that reaches the management of the
\* confirmation (it did not return at the control key, at a missing URL or
\* at the form's validation), with the guard armed
LoadUnderGuard ==
  /\ last'.op = "load"
  /\ last'.stage \notin {"empty", "ctrl", "nourl", "invalid"}
  /\ armed

\* before the step, a form other than the one given to load() is marked
OtherFormDirty == foundModifiedForm(page, marks, last'.fid)

\* the step leaves the requests, the history, the page and the guard alone
NothingHappened ==
  /\ nreq' = nreq /\ inflight' = inflight /\ log' = log
  /\ hist' = hist /\ hidx' = hidx
  /\ lastUrl' = lastUrl /\ previousUrl' = previousUrl
  /\ page' = page /\ docTitle' = docTitle
  /\ armed' = armed /\ marks' = marks

\* C4: while the guard is armed, a load() of a link, of a URL string, or of
\* a form while another form is dirty, asks the confirmation before any
\* pre-hook and any request; when the user declines, no pre-hook runs, no
\* request is sent, no history entry is pushed, lastUrl and previousUrl are
\* unchanged, the guard stays armed and the dirty marks stay as they were.
ArmedLoadAsksFirst ==
  [][(LoadUnderGuard /\ (~isForm(last'.in) \/ OtherFormDirty))
       => /\ last'.prompted
          /\ ~last'.answer
               => /\ last'.stage = "declined" /\ last'.hooks = <<>> /\ last'.req = 0
                  /\ NothingHappened
          /\ last'.answer => last'.hooks = AllPreHooks(last'.in)]_vars

\* C4 (witness): the user declined the confirmation asked for a form sent
\* while the other form of the page is dirty
DeclinedWithOtherFormDirty ==
  /\ last.op = "load" /\ last.stage = "declined" /\ isForm(last.in)
  /\ armed /\ marks # {} /\ last.fid \notin marks

\* the form given to load() is the only one that may be dirty
OnlyDirtyForm == isForm(last'.in) /\ ~OtherFormDirty

\* C5: while the guard is armed, the non-ghost submission of a form F when
\* no other form is dirty shows no confirmation, clears the mark of F,
\* disarms the guard, and goes on to the pre-hooks and to the request.
SelfSubmissionIsSilent ==
  [][(LoadUnderGuard /\ OnlyDirtyForm
        /\ EffectiveParams(cfg, LoadParams(last'.in)).ghost # "true")
       => /\ ~last'.prompted
          /\ last'.fid \notin marks'
          /\ ~armed'
          /\ last'.hooks = AllPreHooks(last'.in)
          /\ last'.canceller = "-"
               => /\ last'.stage = "requested" /\ last'.req = nreq + 1
                  /\ \E r \in inflight' : r.id = nreq + 1 /\ r.url = LoadUrl(last'.in)]_vars

\* C5 (witness): a dirty GET form, the only dirty one, was sent without a
\* confirmation and its request is in flight
DirtyFormSentSilently ==
  /\ last.op = "load" /\ isForm(last.in) /\ last.in.method = "get"
  /\ last.armed0 /\ last.marks0 = {last.fid}
  /\ last.stage = "requested" /\ ~last.prompted /\ ~armed
  /\ \E r \in inflight : r.id = last.req /\ r.ghost # "true"

\* the params object of the call says ghost (the element's attribute, or
\* the POST method of the form)
GhostByParams == Truthy(LoadParams(last'.in).ghost)

\* C6 (as stated): while the guard is armed, the submission of the only
\* dirty form as a ghost navigation is not exempted from the confirmation:
\* the confirmation is asked for it.
GhostSelfSubmissionPrompted ==
  [][(LoadUnderGuard /\ OnlyDirtyForm /\ GhostByParams) => last'.prompted]_vars

\* C6 (amended): while the guard is armed, the submission of the only dirty
\* form as a ghost navigation (ghost by the element's attribute or by the
\* POST method) goes on without any confirmation; the mark of the form is
\* cleared and the guard stays armed for the next navigation.
GhostSelfSubmissionForced ==
  [][(LoadUnderGuard /\ OnlyDirtyForm /\ GhostByParams)
       => /\ ~last'.prompted
          /\ last'.fid \notin marks'
          /\ armed'
          /\ last'.hooks = AllPreHooks(last'.in)
          /\ last'.canceller = "-" => last'.stage = "requested"]_vars

\* C6 (witness): a dirty POST form, the only dirty one, was sent without a
\* confirmation and the guard is still armed
PostFormSentUnprompted ==
  /\ last.op = "load" /\ isForm(last.in) /\ last.in.method = "post"
  /\ last.armed0 /\ last.marks0 = {last.fid}
  /\ last.stage = "requested" /\ ~last.prompted /\ armed
  /\ \E r \in inflight : r.id = last.req /\ r.ghost = "true" /\ r.post

\* the step is a popstate that ends with the request of a replay: rq is the
\* request, st the state record of the entry the browser went to
ReplayRequested == last.op = "popstate" /\ last.stage = "requested"

ReplayOf == log[last.req].req

\* the value the replay takes for a field the record omits or leaves empty
FromGlobal(field, omitted, global) == omitted => field = global

\* C7 (as stated): a backward or forward replay fetches the URL of the
\* state record and merges it with the target, the source and the strategy
\* of the record whenever the record specifies them, whatever the global
\* ones are; a field the record omits is taken from the global
\* configuration.
ReplayUsesRecord ==
  ReplayRequested =>
    LET rq == ReplayOf
        st == hist[hidx].state
    IN  /\ rq.url = st.url
        /\ Truthy(st.target) => rq.target = st.target
        /\ st.source # ABSENT => rq.source = st.source
        /\ Truthy(st.strategy) => rq.strategy = st.strategy
        /\ FromGlobal(rq.target, ~Truthy(st.target), cfg.target)
        /\ FromGlobal(rq.source, st.source = ABSENT, cfg.source)
        /\ FromGlobal(rq.strategy, ~Truthy(st.strategy), cfg.strategy)

\* C7 (amended): the replay takes its source and its strategy from the
\* record when the record has them, from the global configuration
\* otherwise; it takes the target of the record only when that selector
\* still matches a node of the page, and the global target when the record
\* has no target or when its target matches nothing any more.
ReplayUsesRecordIfResolved ==
  ReplayRequested =>
    LET rq == ReplayOf
        st == hist[hidx].state
    IN  /\ rq.url = st.url
        /\ (Truthy(st.target) /\ Resolves(page, st.target)) => rq.target = st.target
        /\ st.source # ABSENT => rq.source = st.source
        /\ Truthy(st.strategy) => rq.strategy = st.strategy
        /\ FromGlobal(rq.target, ~(Truthy(st.target) /\ Resolves(page, st.target)), cfg.target)
        /\ FromGlobal(rq.source, st.source = ABSENT, cfg.source)
        /\ FromGlobal(rq.strategy, ~Truthy(st.strategy), cfg.strategy)
        /\ rq.tid = NodeId(querySelector(page, rq.target))

\* C7 (witness): after /a was pushed with target #t and /b was pushed, the
\* page has no #t any more and the backward replay of /a was merged in the
\* global target
ReplayFellBackToGlobalTarget ==
  /\ last.op = "replayed"
  /\ Len(hist) = 3 /\ hidx = 2 /\ hist[2].url = "/a" /\ hist[3].url = "/b"
  /\ log[last.req].outcome = "merged"
  /\ log[last.req].req.st.target = "#t"
  /\ log[last.req].req.target = "body"
  /\ log[last.req].req.source = "#x" /\ log[last.req].req.strategy = "fill"

\* request i comes from an element that carries data-vik-ghost="false"
GhostRefused(i) == log[i].req.kind = "load" /\ log[i].req.in.aGhost = "false"

PostForm(in) == isForm(in) /\ in.method = "post"

\* C8 (as stated): for a link, a GET form or a POST form that carries
\* data-vik-ghost="false", the effective ghost value of the navigation is
\* false whatever the global ghost setting is.
GhostFalseAlwaysWins ==
  \A i \in 1..Len(log) : GhostRefused(i) => log[i].req.ghost = "false"

\* C8 (amended): for a link or a GET form that carries
\* data-vik-ghost="false", the effective ghost value is false whatever the
\* global ghost setting is, and its response pushes a history entry unless
\* its URL is the last URL already; for a POST form the attribute is
\* overridden, the navigation is ghost and pushes nothing.
GhostFalseWinsButPost ==
  \A i \in 1..Len(log) :
    GhostRefused(i) =>
      IF PostForm(log[i].req.in)
      THEN log[i].req.ghost = "true" /\ ~log[i].pushed
      ELSE /\ log[i].req.ghost = "false"
           /\ log[i].outcome = "merged"
                => (log[i].pushed \/ log[i].lu = log[i].req.url)

\* C8 (witness): with ghost set globally, load() has just sent the request
\* of a GET form carrying data-vik-ghost="false", and it is not ghost
GetFormRefusesGlobalGhost ==
  /\ last.op = "load" /\ last.stage = "requested"
  /\ cfg.ghost = "true"
  /\ isForm(last.in) /\ last.in.method = "get" /\ last.in.aGhost = "false"
  /\ log[last.req].req.ghost = "false"

\* where node id hangs in the tree: its parent and its rank among the
\* children of its parent (nowhere for the root and for a node not in tree)
Slot(tree, id) ==
  LET s == NodeSeq(tree)
  IN  UNION { { <<NodeId(s[j]), k>> :
                  k \in {n \in 1..Len(s[j].kids) : NodeId(s[j].kids[n]) = id} } :
              j \in 1..Len(s) }

\* the step is the callback of request i, which finds its target node in
\* the page and its source node in the fetched document, and merges it
MergesSource(i) ==
  /\ i <= Len(log) /\ log[i].outcome = "flight" /\ log'[i].outcome = "merged"
  /\ ~log[i].req.raw /\ Truthy(log[i].req.source)
  /\ Attached(page, log[i].req.tid)

\* C9: with a source selector that matches node S of the fetched document
\* and a target node T of the page, replace removes T from the page and puts
\* S in its place; fill leaves T in place with S as its only child; copy
\* leaves T in place with the children of S, in their order, as its children.
StrategiesMerge ==
  [][\A i \in 1..Len(log) :
       MergesSource(i) =>
         LET rq == log[i].req
             T == rq.tid
             S == querySelector(Doc(rq.id, rq.url), rq.source)
         IN  CASE rq.strategy = "copy" ->
                    /\ Attached(page', T) /\ Slot(page', T) = Slot(page, T)
                    /\ NodeAt(page', T).kids = S.kids
               [] rq.strategy = "fill" ->
                    /\ Attached(page', T) /\ Slot(page', T) = Slot(page, T)
                    /\ NodeAt(page', T).kids = <<S>>
               [] OTHER ->
                    /\ ~Attached(page', T)
                    /\ Attached(page', NodeId(S)) /\ Slot(page', NodeId(S)) = Slot(page, T)
                    /\ NodeAt(page', NodeId(S)) = S]_vars

\* request i was merged with this strategy in a target that was in the page
MergedLive(i, strategy) ==
  /\ log[i].outcome = "merged" /\ log[i].live
  /\ log[i].req.source = "#x" /\ log[i].req.strategy = strategy

\* C9 (witness): #t was filled with the #x of one response, then replaced
\* by the #x of another, which is in the page now
FilledThenReplaced ==
  \E i, j \in 1..Len(log) :
    /\ MergedLive(i, "fill") /\ MergedLive(j, "replace") /\ log[i].at < log[j].at
    /\ Attached(page, <<j, "x">>) /\ ~Attached(page, <<0, "t">>)

\* the requests i and j have the same target node, were in flight together
\* and were both merged, j after i and last of all the responses
RaceWonBy(i, j) ==
  /\ i # j
  /\ log[i].req.kind = "load" /\ log[j].req.kind = "load"
  /\ log[i].req.tid = log[j].req.tid
  /\ log[i].outcome = "merged" /\ log[j].outcome = "merged"
  /\ log[j].sentAt < log[i].at /\ log[i].at < log[j].at
  /\ log[j].at = Processed

\* the page has a node that came with the response of request i
Shows(i) == \E k \in 1..Len(NodeSeq(page)) : NodeSeq(page)[k].org = i

\* C10: when two navigations with the same target element are in flight at
\* the same time and both succeed, the page shows, once both responses were
\* processed, the content of the response processed last, whatever the
\* strategy is.
LastResponseWins ==
  \A i, j \in 1..Len(log) : RaceWonBy(i, j) => Shows(j)

\* the content, the title, lastUrl and the current history entry are those
\* of the navigation or replay of request i
DisplayedBy(i) ==
  /\ log[i].outcome = "merged" /\ Shows(i)
  /\ lastUrl = log[i].req.url
  /\ hist[hidx].url = log[i].req.url
  /\ docTitle = log[i].req.url

\* C11: for every interleaving of activations, back/forward presses and
\* response arrivals, whenever no request is in flight the displayed state
\* is not corrupted: the content shown, the document title, lastUrl and the
\* URL of the current history entry belong to one and the same navigation.
DisplayedStateConsistent ==
  (inflight = {} /\ lastUrl # NULL) => \E i \in 1..Len(log) : DisplayedBy(i)

\* the step is the end of request i without a 200 response
Fails(i) == i <= Len(log) /\ log[i].outcome = "flight" /\ log'[i].outcome = "failed"

\* C12: when the request of a navigation or of a replay fails or returns a
\* status other than 200, the content of the page is untouched, no history
\* entry is pushed, lastUrl and previousUrl are unchanged, no re-scan (and
\* so no post-hook) is scheduled for it, and no other request is sent.
FailureChangesNothing ==
  [][\A i \in 1..Len(log) :
       Fails(i) =>
         /\ page' = page /\ docTitle' = docTitle
         /\ hist' = hist /\ hidx' = hidx
         /\ lastUrl' = lastUrl /\ previousUrl' = previousUrl
         /\ timers' = timers /\ cfg' = cfg
         /\ armed' = armed /\ marks' = marks
         /\ nreq' = nreq /\ Len(log') = Len(log)
         /\ inflight' = inflight \ {log[i].req}]_vars

\* C12 (witness): the request of a replay failed and the request of a link
\* failed
ReplayAndLoadFailed ==
  \E i, j \in 1..Len(log) :
    /\ log[i].outcome = "failed" /\ log[i].req.kind = "replay"
    /\ log[j].outcome = "failed" /\ log[j].req.kind = "load"

\* the step is the callback of request i, which returns at the source
\* selector that matches nothing
MissesSource(i) ==
  i <= Len(log) /\ log[i].outcome = "flight" /\ log'[i].outcome = "nosource"

\* C13: when a source selector is configured but matches nothing in the
\* fetched document, the navigation is aborted without any partial
\* mutation: the content of the page, the document title, the session
\* history, lastUrl and previousUrl are as they were before the response.
MissingSourceChangesNothing ==
  [][\A i \in 1..Len(log) :
       MissesSource(i) =>
         /\ page' = page /\ docTitle' = docTitle
         /\ hist' = hist /\ hidx' = hidx
         /\ lastUrl' = lastUrl /\ previousUrl' = previousUrl]_vars

\* the step is the callback of request i, a non-ghost navigation that reads
\* the fetched document as HTML, and the title selector fails on that
\* document: no node, no text, no attribute or an empty attribute
TitleFails(i) ==
  /\ i <= Len(log) /\ log[i].outcome = "flight" /\ log'[i].at > 0
  /\ ManagesTitle(log[i].req)
  /\ last'.op = "response" /\ last'.req = i
  /\ ~TitleFound(log[i].req, last'.stage)

\* C14: in a non-ghost navigation read as HTML, every kind of title failure
\* leaves the document title unchanged and never blocks the rest: the
\* content is merged, the history entry is pushed and the re-scan (with its
\* post-hooks) is scheduled.
TitleFailureNeverBlocks ==
  [][\A i \in 1..Len(log) :
       TitleFails(i) =>
         /\ docTitle' = docTitle
         /\ log'[i].outcome = "merged"
         /\ page' = MergeContent(page, log[i].req, Doc(i, log[i].req.url))
         /\ log'[i].pushed = (lastUrl # log[i].req.url)
         /\ timers' = timers + 1]_vars

(* ------------------------------------------------------------------ *)
(* C15                                                                 *)
(* ------------------------------------------------------------------ *)
\* the step completes the merge of a response (forward or replay)
CompletesMerge ==
  \E i \in 1..Len(log) : log[i].outcome = "flight" /\ log'[i].outcome = "merged"

\* the step is the browser loading the page anew
Reloads == last'.op = "loaded"

\* C15: while the page lives, one delivery of the post-hooks is scheduled by
\* each init() and by each completed merge (forward or replay) and by
\* nothing else; each delivery happens in a later step than what scheduled
\* it, runs every global post-callback once, in order, then the vik:postLoad
\* event, and changes neither the page, the title, the history, the URLs
\* nor any request
PostHooksOncePerMerge ==
  [][ ~Reloads =>
        /\ (CompletesMerge \/ last'.op = "init") <=> (timers' = timers + 1)
        /\ (last'.op = "ready") <=> (timers' = timers - 1)
        /\ (last'.op = "ready") =>
              /\ timers > 0
              /\ last'.hooks = execCallback(cfg.postCallback) \o << "vik:postLoad" >>
              /\ UNCHANGED << page, docTitle, hist, hidx, lastUrl, previousUrl,
                              inflight, log >> ]_vars

\* the post-hooks of a replay's merge were delivered, callbacks included,
\* and no delivery is pending
PostDeliveredAfterReplay ==
  /\ last.op = "ready"
  /\ timers = 0
  /\ last.hooks = << "globalPost", "otherPost", "vik:postLoad" >>
  /\ \E i \in 1..Len(log) : log[i].req.kind = "replay" /\ log[i].outcome = "merged"

(* ------------------------------------------------------------------ *)
(* C16                                                                 *)
(* ------------------------------------------------------------------ *)
\* the pre-callbacks given with the call, then the one of the element
LocalPreCallbacks(in) ==
  (IF in.pPre # ABSENT THEN << in.pPre >> ELSE <<>>)
     \o (IF in.aPre # ABSENT THEN << in.aPre >> ELSE <<>>)

\* C16: a load() that gets as far as its pre-hooks runs them one after the
\* other in this order: the pre-callbacks of the call and of the element,
\* then the global pre-callbacks in the order of their list, then the
\* dispatch of vik:preLoad; a request is issued only by a load() that ran
\* them all, and a load() that returned earlier ran none.
PreHooksInOrder ==
  last.op = "load" =>
    /\ last.stage \in {"requested", "notarget", "cancelled", "threw"} =>
         last.hooks = LocalPreCallbacks(last.in) \o execCallback(cfg.preCallback)
                        \o << "vik:preLoad" >>
    /\ last.stage \notin {"requested", "notarget", "cancelled", "threw"} =>
         last.hooks = <<>> /\ last.req = 0
    /\ last.req # 0 => last.stage = "requested"

\* C16 (witness): a request was issued after the five pre-hooks of a link
\* loaded with a pre-callback of the call
AllFivePreHooksThenRequest ==
  /\ last.op = "load" /\ last.stage = "requested" /\ last.req # 0
  /\ last.hooks = << "sitePre", "localPre", "globalPre", "otherPre", "vik:preLoad" >>

(* ------------------------------------------------------------------ *)
(* C17                                                                 *)
(* ------------------------------------------------------------------ *)
\* C17: after any call of init(), every field of the global configuration
\* is what that call alone gives after the constructor, whatever the
\* earlier calls were: the fields it does not give have their default.
InitFullyReResolves ==
  last.op = "init" => cfg = InitParamsFrom(DefaultConfig, last.params)

(* ------------------------------------------------------------------ *)
(* C18                                                                 *)
(* ------------------------------------------------------------------ *)
\* the request sent by the call of load() that was the last step
SentByLoad == log[last.req].req

\* C18: when load(element, params) sends a request and a field (ghost,
\* strategy, target) is set both in params and by an attribute of the
\* element, the navigation uses the value of params.
CallSiteWinsOverAttribute ==
  (last.op = "load" /\ last.stage = "requested" /\ last.in.kind # "url") =>
    /\ (last.in.pGhost # ABSENT /\ last.in.aGhost # ABSENT)
          => SentByLoad.ghost = last.in.pGhost
    /\ (last.in.pStrategy # ABSENT /\ last.in.aStrategy # ABSENT)
          => SentByLoad.strategy = last.in.pStrategy
    /\ (last.in.pTarget # ABSENT /\ last.in.aTarget # ABSENT)
          => SentByLoad.target = last.in.pTarget

(* ------------------------------------------------------------------ *)
(* C19                                                                 *)
(* ------------------------------------------------------------------ *)
\* the step before was a load() of an element that sent a request
ElementRequested == last.op = "load" /\ last.stage = "requested" /\ last.in.kind # "url"

\* C19 (as stated): data-vik-ghost gives true for true, on, yes, enable, 1,
\* false for false, off, no, disable, 0, and is ignored (the global ghost
\* is used) for any other token.
GhostTenTokens ==
  ElementRequested =>
    SentByLoad.ghost =
      IF last.in.aGhost \in {"true", "on", "yes", "enable", "1"} THEN "true"
      ELSE IF last.in.aGhost \in {"false", "off", "no", "disable", "0"} THEN "false"
      ELSE cfg.ghost

\* C19 (amended): data-vik-ghost gives true for the token true and false for
\* the token false; for any other token, on, yes, enable, 1, off, no,
\* disable and 0 included, the attribute is ignored and the effective ghost
\* of a link is the global one.
GhostTwoTokens ==
  ElementRequested =>
    SentByLoad.ghost =
      IF last.in.aGhost = "true" THEN "true"
      ELSE IF last.in.aGhost = "false" THEN "false"
      ELSE cfg.ghost

\* C19 (witness): a link with data-vik-ghost="off" was requested as a ghost
\* navigation because the global ghost is set
OffTokenIgnored ==
  /\ ElementRequested /\ last.in.aGhost = "off"
  /\ cfg.ghost = "true" /\ SentByLoad.ghost = "true"

(* ------------------------------------------------------------------ *)
(* C20                                                                 *)
(* ------------------------------------------------------------------ *)
Strategies == {"replace", "fill", "copy"}

\* C20: the strategy of every request, forward or replay, as used for the
\* merge and as sent in the x-vik-strategy header, is one of replace, fill
\* and copy, whatever was given to init(), written in data-vik-strategy,
\* given to load() or read from a history state record.
StrategyAlwaysKnown ==
  \A i \in 1..Len(log) :
    /\ log[i].req.strategy \in Strategies
    /\ StrategyHeader(log[i].req.strategy) \in Strategies

(* ------------------------------------------------------------------ *)
(* C21                                                                 *)
(* ------------------------------------------------------------------ *)
\* C21: load() returns true when its input is a link and the control key
\* is held, and then it runs no hook, shows no prompt, sends no request and
\* changes no state; in every other case it returns false.
LoadReturnsTrueOnlyForCtrlLink ==
  [][ last'.op = "load" =>
        IF last'.in.kind = "link" /\ ctrl
        THEN /\ last'.ret = "true"
             /\ last'.hooks = <<>> /\ ~last'.prompted
             /\ NothingHappened
        ELSE last'.ret = "false" ]_vars

(* ------------------------------------------------------------------ *)
(* C22                                                                 *)
(* ------------------------------------------------------------------ *)
\* C22: no request made for a form, GET or POST, adds an entry to the
\* browser history when its response is merged.
FormsNeverPush ==
  \A i \in 1..Len(log) : isForm(log[i].req.in) => ~log[i].pushed

(* ------------------------------------------------------------------ *)
(* C23                                                                 *)
(* ------------------------------------------------------------------ *)
\* C23: after a scan made with the default forms selector, every form of
\* the page whose action starts with a single slash and that has no
\* data-vik="false", no target attribute and no onsubmit attribute of its
\* own carries the trigger, whatever its method attribute is.
ScanBindsEveryMethod ==
  (last.op = "ready" /\ cfg.formsSelector = DefaultConfig.formsSelector) =>
    \A n \in FormNodes(page) :
      (/\ SingleSlash(FormAttrs(n).action)
       /\ FormAttrs(n).dataVik # "false"
       /\ FormAttrs(n).target = ABSENT) => NodeId(n) \in scan.bound

(* ------------------------------------------------------------------ *)
(* C24                                                                 *)
(* ------------------------------------------------------------------ *)
\* the entry the user went to has no state, or neither its target nor the
\* global target selects an element of the page
NoStateOrNoTarget ==
  LET state == hist[hidx'].state
  IN  \/ ~state.has
      \/ /\ ~(Truthy(state.target) /\ Resolves(page, state.target))
         /\ ~(Truthy(cfg.target) /\ Resolves(page, cfg.target))

\* C24: on a backward or forward signal, when the entry has no state or
\* when neither the recorded target nor the global target resolves, the
\* handler asks the browser to load the current location, sends no request
\* and leaves lastUrl and previousUrl alone, and the browser then loads the
\* document of the current entry; in every other case the handler sends
\* exactly one request and asks for no load.
ReplayOrBrowserLoad ==
  [][ /\ last'.op = "popstate" =>
           IF NoStateOrNoTarget
           THEN /\ loading'
                /\ nreq' = nreq /\ inflight' = inflight /\ log' = log
                /\ lastUrl' = lastUrl /\ previousUrl' = previousUrl
           ELSE /\ ~loading'
                /\ nreq' = nreq + 1 /\ Len(log') = Len(log) + 1
                /\ Cardinality(inflight' \ inflight) = 1
      /\ last'.op = "loaded" =>
           /\ loading /\ last.op = "popstate"
           /\ page' = Doc(0, hist[hidx].url)
           /\ hist' = hist /\ hidx' = hidx /\ nreq' = nreq ]_vars

\* C24 (witness): the browser was asked to load the page for an entry that
\* has a state record, after a navigation had been made
LoadForEntryWithState ==
  /\ last.op = "popstate" /\ last.stage = "reload" /\ loading
  /\ hist[hidx].state.has
  /\ lastUrl # NULL

(* ------------------------------------------------------------------ *)
(* C25                                                                 *)
(* ------------------------------------------------------------------ *)
\* C25: when load() is given a form whose validation callback returns a
\* falsy value, it returns there: it asks no confirmation, runs no
\* pre-hook, sends no request, and leaves the history, the page, the
\* guard's flag and the marks of the forms as they were.
RefusedFormDoesNothing ==
  [][ (last'.op = "load" /\ isForm(last'.in) /\ last'.in.aValidation = "reject") =>
        /\ last'.stage = "invalid" /\ last'.ret = "false"
        /\ ~last'.prompted /\ last'.hooks = <<>> /\ last'.req = 0
        /\ NothingHappened ]_vars

\* C25 (witness): a refused form was given to load() while the guard was
\* armed by the other form, and the guard and the marks are as before
RefusedWhileArmed ==
  /\ last.op = "load" /\ last.stage = "invalid"
  /\ armed /\ marks # {} /\ last.fid \notin marks

(* ------------------------------------------------------------------ *)
(* C26                                                                 *)
(* ------------------------------------------------------------------ *)
\* C26: the lastUrl given to the post-callbacks and to the vik:postLoad
\* listeners is null if and only if no response of a link, of a form or of
\* a URL was merged by the library before that delivery.
NullLastUrlMeansStartUp ==
  last.op = "ready" =>
    (last.lu = NULL <=> \A i \in 1..Len(log) : log[i].outcome # "merged")

(* ------------------------------------------------------------------ *)
(* C27                                                                 *)
(* ------------------------------------------------------------------ *)
\* the step commits a page: it merges the response of a non-ghost load or
\* of a replay
Commits ==
  \E i \in 1..Len(log) :
    /\ log[i].outcome = "flight" /\ log'[i].outcome = "merged"
    /\ log[i].req.ghost # "true"

\* the pages committed so far
Committed(l) == {i \in 1..Len(l) : l[i].outcome = "merged" /\ l[i].req.ghost # "true"}

\* C27: previousUrl is null as long as fewer than two pages were committed
\* (non-ghost loads or replays), previousUrl is null whenever lastUrl is
\* null, and while the page lives lastUrl and previousUrl change only when
\* a page is committed, previousUrl taking the value lastUrl had just
\* before that commit.
PreviousUrlFollowsLastUrl ==
  [][ /\ Cardinality(Committed(log')) < 2 => previousUrl' = NULL
      /\ lastUrl' = NULL => previousUrl' = NULL
      /\ (last'.op # "loaded" /\ (lastUrl' # lastUrl \/ previousUrl' # previousUrl))
            => (Commits /\ previousUrl' = lastUrl) ]_vars

\* C27 (witness): a replay was committed after other pages and previousUrl
\* is the lastUrl of before, another URL than the one replayed
PreviousUrlAfterReplay ==
  /\ last.op = "replayed" /\ log[last.req].outcome = "merged"
  /\ previousUrl # NULL /\ previousUrl # lastUrl
  /\ lastUrl = log[last.req].req.url

(* ------------------------------------------------------------------ *)
(* C28                                                                 *)
(* ------------------------------------------------------------------ *)
\* C28: whatever the navigations, the replays and the failures were, two
\* adjacent entries of the session history never have the same URL.
NoAdjacentDuplicates ==
  \A k \in 1..(Len(hist) - 1) : hist[k].url # hist[k + 1].url

(* ------------------------------------------------------------------ *)
(* C29                                                                 *)
(* ------------------------------------------------------------------ *)
\* C29: in every state the guard is armed if and only if at least one form
\* of the page is marked as changed.
ArmedIffSomeFormDirty ==
  armed <=> (\E f \in FormsIn(page) : f \in marks)

(* ------------------------------------------------------------------ *)
(* C30                                                                 *)
(* ------------------------------------------------------------------ *)
\* C30: the merge of a response, forward or replay, with the internal
\* init() that ends it, leaves every field of the global configuration as
\* it was, manageQuitPageConfirmation and quitPageConfirmationText included.
NavigationKeepsConfig ==
  [][ (\E i \in 1..Len(log) : log[i].outcome = "flight" /\ log'[i].at > 0) => cfg' = cfg ]_vars

(* ------------------------------------------------------------------ *)
(* C31                                                                 *)
(* ------------------------------------------------------------------ *)
\* C31: every post-hook of a navigation, the post-callback of the element
\* included, runs when the scan has bound the forms the merge inserted:
\* in a step that runs post-hooks, every form of the page that the forms
\* selector matches carries the trigger.
PostHooksAfterScan ==
  [][ (last'.op \in {"response", "ready"} /\ last'.hooks # <<>>) =>
        \A n \in FormNodes(page') :
          FormMatches(cfg'.formsSelector, FormAttrs(n), FALSE) => NodeId(n) \in scan'.bound ]_vars

(* ------------------------------------------------------------------ *)
(* C32                                                                 *)
(* ------------------------------------------------------------------ *)
\* C32: while the guard is armed, the submission of the only dirty form as
\* a ghost navigation (ghost by the element, by the POST method or by the
\* global configuration) leaves the guard armed when load() returns, and
\* the processing of the response of a ghost navigation leaves it as it is.
GhostSubmissionStaysArmed ==
  [][ /\ (/\ LoadUnderGuard /\ OnlyDirtyForm
          /\ EffectiveParams(cfg, LoadParams(last'.in)).ghost = "true"
          /\ last'.stage = "requested") => armed'
      /\ (last'.op = "response" /\ log[last'.req].req.ghost = "true")
            => armed' = armed ]_vars

(* ------------------------------------------------------------------ *)
(* C33                                                                 *)
(* ------------------------------------------------------------------ *)
\* C33: a call of load() that is given up because a pre-hook cancels it or
\* because the target selector matches nothing leaves the armed flag and
\* the marks of the forms as it found them, and so does the failure of a
\* request.
AbortLeavesGuard ==
  [][ /\ (last'.op = "load" /\ last'.stage \in {"cancelled", "notarget"})
            => (armed' = armed /\ marks' = marks)
      /\ (last'.op = "failed") => (armed' = armed /\ marks' = marks) ]_vars

(* ------------------------------------------------------------------ *)
(* C34                                                                 *)
(* ------------------------------------------------------------------ *)
\* C34: the state record pushed when a navigation is added to the history
\* carries the target, the source and the strategy that the navigation
\* used (the global values overloaded with those of the call).
StateCarriesEffectiveParams ==
  [][ \A i \in 1..Len(log) :
        (log[i].outcome = "flight" /\ log'[i].pushed) =>
          /\ hist'[hidx'].state.has
          /\ hist'[hidx'].state.url = log[i].req.url
          /\ hist'[hidx'].state.target = log[i].req.target
          /\ hist'[hidx'].state.source = log[i].req.source
          /\ hist'[hidx'].state.strategy = log[i].req.strategy ]_vars

(* ------------------------------------------------------------------ *)
(* C35                                                                 *)
(* ------------------------------------------------------------------ *)
\* the requests sent by the step
SentNow == inflight' \ inflight

\* the prefix configured for the navigation of request r: the one of the
\* element, or else the global one
PrefixOf(r) == IF r.in.aPrefix # ABSENT THEN r.in.aPrefix ELSE cfg.urlPrefix

\* C35: a forward navigation fetches the prefix followed by the URL when a
\* prefix is configured and the URL otherwise; the history entry and
\* lastUrl take the URL without the prefix; the replay of an entry fetches
\* what a forward navigation that pushed an entry for that URL fetched.
ReplayFetchesPrefixedUrl ==
  [][ /\ \A r \in SentNow :
           r.kind = "load" =>
             r.real = IF Truthy(PrefixOf(r)) THEN << PrefixOf(r), r.url >> ELSE << r.url >>
      /\ \A i \in 1..Len(log) :
           (log[i].outcome = "flight" /\ log'[i].pushed) =>
             (hist'[hidx'].url = log[i].req.url /\ lastUrl' = log[i].req.url)
      /\ \A r \in SentNow :
           r.kind = "replay" =>
             \E i \in 1..Len(log) :
               log[i].pushed /\ log[i].req.url = r.url /\ log[i].req.real = r.real ]_vars

(* ------------------------------------------------------------------ *)
(* C36                                                                 *)
(* ------------------------------------------------------------------ *)
\* the document fetched for request r lacks the source of r
LacksSource(r) == Truthy(r.source) /\ ~Resolves(Doc(r.id, r.url), r.source)

ArmedReplayMissedSource ==
  /\ last.op = "replayed" /\ armed
  /\ log[last.req].outcome = "nosource"
  /\ lastUrl # log[last.req].req.st.url

(* ------------------------------------------------------------------ *)
(* C37                                                                 *)
(* ------------------------------------------------------------------ *)
\* C37: a call of load() for a link that carries data-vik-method="post",
\* when it is not stopped by the control key, a missing URL, a pre-hook or
\* the target, sends exactly one request, with the POST method, and does
\* not end with an exception.
PostLinkSendsOnePost ==
  [][ (/\ last'.op = "load" /\ last'.in.kind = "link" /\ last'.in.aMethod = "post"
       /\ last'.stage \notin {"ctrl", "nourl", "declined", "cancelled", "notarget"})
        => /\ last'.ret # "threw"
           /\ Cardinality(SentNow) = 1
           /\ \A r \in SentNow : r.post ]_vars

(* ------------------------------------------------------------------ *)
(* C38                                                                 *)
(* ------------------------------------------------------------------ *)
\* the requests whose response was merged
Merged == {i \in 1..Len(log) : log[i].outcome = "merged"}

\* the merge whose delivery of the post-hooks is the next one to run, in a
\* page that made no call of init(): each merge scheduled one delivery, and
\* the deliveries run in the order they were scheduled
NextDelivered ==
  {i \in Merged :
     Cardinality({j \in Merged : log[j].at < log[i].at}) = Cardinality(Merged) - timers}

\* C38: the delivery of the post-hooks scheduled by the merge of a
\* navigation that was added to the history gives them the URL of that
\* navigation as lastUrl, and as previousUrl the lastUrl that the merge
\* found, whatever was processed between the merge and the delivery.
PostHooksSeeOwnUrl ==
  [][ (last'.op = "ready" /\ ninit = 0) =>
        \A i \in NextDelivered :
          log[i].pushed => (last'.lu = log[i].req.url /\ last'.pu = log[i].lu) ]_vars

(* ------------------------------------------------------------------ *)
(* C39                                                                 *)
(* ------------------------------------------------------------------ *)
\* the inline scripts of a sequence of scripts
Inline(scripts) == SelectSeq(scripts, LAMBDA n : n.src = ABSENT)

\* the script elements of the source fragment merged for request r, none
\* when the response was written without a source node
FragmentScripts(r) ==
  IF r.raw \/ ~Truthy(r.source) THEN <<>>
  ELSE ScriptNodes(querySelector(Doc(r.id, r.url), r.source))

\* C39: while the page lives, <head> never holds two script elements
\* appended by the library with the same src, and each merge of a source
\* fragment (forward or replay) appends each inline script of the fragment
\* exactly once, in order, and no other inline script.
ScriptsLoadedOnce ==
  [][ /\ \A k, l \in 1..Len(head') :
           (head'[k].src # ABSENT /\ head'[k].src = head'[l].src) => k = l
      /\ \A i \in 1..Len(log) :
           (log[i].outcome = "flight" /\ log'[i].outcome = "merged") =>
             /\ Len(head') >= Len(head) /\ SubSeq(head', 1, Len(head)) = head
             /\ LET new == SubSeq(head', Len(head) + 1, Len(head'))
                IN  /\ \A k \in 1..Len(new) : new[k].by = i
                    /\ [k \in 1..Len(Inline(new)) |-> Inline(new)[k].text]
                         = [k \in 1..Len(Inline(FragmentScripts(log[i].req))) |->
                              Inline(FragmentScripts(log[i].req))[k].text] ]_vars

\* C39 (witness): a replay was merged after another merge in the same page:
\* <head> holds the inline scripts of both and /lib.js once
ScriptsOfTwoMerges ==
  /\ last.op = "replayed" /\ log[last.req].outcome = "merged"
  /\ Len(Inline(head)) = 2
  /\ Inline(head)[1].by # Inline(head)[2].by
  /\ Inline(head)[2].by = last.req
  /\ Cardinality({k \in 1..Len(head) : head[k].src = "/lib.js"}) = 1
  /\ jsIncludes = {"/lib.js"}

(* ------------------------------------------------------------------ *)
(* C40                                                                 *)
(* ------------------------------------------------------------------ *)
\* the elements of a tree that the selectors of c match when their own
\* trigger attribute is left aside
Eligible(c, tree) ==
  {NodeId(n) : n \in {m \in FormNodes(tree) :
                        FormMatches(c.formsSelector, FormAttrs(m), FALSE)}}
    \cup {NodeId(n) : n \in {m \in LinkNodes(tree) :
                               LinkMatches(c.linksSelector, LinkAttrs(m), FALSE)}}

====
